---- MODULE Spec2Model ----
(***************************************************************************)
(* Trait-schema accumulation engine of text2matrix: response parsing and   *)
(* regularisation, the follow-up protocol, and the accumulator classes     *)
(* (TraitAccumulator, FollowupTraitAccumulator, LCTraitAccumulator), the   *)
(* FollowupTraitExtractor, the desc2matrix_accum_tab script loop, the      *)
(* legacy process_descs functions, TabTraitAccumulator's seeding, direct   *)
(* calls of the regularisers and the parsing functions, get_summary, the   *)
(* output file of the scripts (desc2matrix.py included) under              *)
(* interruption, and the word-set functions of desc2matrix_followup.py     *)
(* and desc2matrix_qc.py, and TraitExtractor.ext_step called by several    *)
(* workers at once on one object (threads of one CPython process, where    *)
(* list.append is atomic).                                                 *)
(***************************************************************************)
EXTENDS Integers, Sequences, FiniteSets, TLC

VARIABLES
    variant,           \* which class / script this run is an instance of
    charlist_history,  \* self.charlist_history (script: charlist_history)
    sp_chars,          \* self.sp_chars (script: sp_list)
    calls,             \* backend calls issued by the most recent operation
    last,              \* the most recent operation: its name, the backend's
                       \* responses to it (a function call: its arguments),
                       \* what it returned or raised, and for a regulariser
                       \* call the argument as the call left it
    nsteps,            \* number of store_results=True step calls made so far
    pc,                \* scripts: position in main(); classes: "api"
    outputfile,        \* scripts: what the file at args.outputfile holds
    backend,           \* extraction by several workers: the deterministic
                       \* backend of the run, the response it gives to each
                       \* prompt
    jobs               \* extraction by several workers: for each sample, where
                       \* the ext_step call made for it is

vars == <<variant, charlist_history, sp_chars, calls, last, nsteps, pc, outputfile,
          backend, jobs>>

---------------------------------------------------------------------------
(* Bounds and program constants *)

\* --initspnum: number of species tabulated for the initial list
initspnum == 3

\* number of stored steps per run; the scripts' number of input descriptions
MaxSteps == 2

---------------------------------------------------------------------------
(* Python / JSON values.  Every value is a one-field record whose field    *)
(* name is its type tag, so that values of different types compare unequal.*)

JStr(s) == [str |-> s]
JNum(n) == [num |-> n]
PyNone == [none |-> TRUE]
PyFalse == [bool |-> FALSE]
JList(items) == [list |-> items]
\* a dict keeps its insertion order: a sequence of key/value pairs
JDict(pairs) == [dict |-> pairs]
KV(key, val) == [k |-> key, v |-> val]
\* an exception leaving a function
Raise(exc) == [raise |-> exc]

\* the element of a one-element set.  Only({(body) : x \in {e}}) is body with
\* x standing for the value of e: a local variable assigned e once
Only(S) == CHOOSE x \in S : TRUE

IsList(x) == DOMAIN x = {"list"}
IsDict(x) == DOMAIN x = {"dict"}
IsStr(x) == DOMAIN x = {"str"}
IsNum(x) == DOMAIN x = {"num"}
IsRaise(x) == DOMAIN x = {"raise"}

Keys(d) == {d.dict[i].k : i \in 1..Len(d.dict)}
Get(d, key) == LET i == CHOOSE j \in 1..Len(d.dict) : d.dict[j].k = key IN d.dict[i].v
Set(d, key, val) ==
    JDict([i \in 1..Len(d.dict) |-> IF d.dict[i].k = key THEN KV(key, val) ELSE d.dict[i]])

\* {"characteristic": name, "value": val}
Char(name, val) == JDict(<<KV("characteristic", JStr(name)), KV("value", val)>>)

RECURSIVE JoinFrom(_, _, _)
JoinFrom(strs, i, sep) ==
    IF i > Len(strs) THEN ""
    ELSE IF i = Len(strs) THEN strs[i]
    ELSE strs[i] \o sep \o JoinFrom(strs, i + 1, sep)
\* sep.join(strs)
Join(strs, sep) == JoinFrom(strs, 1, sep)

\* the strings of the model that contain an apostrophe
StringsWithApostrophe == {"bird's nest"}

RECURSIVE PyRepr(_)
\* repr(x) of a decoded JSON value; a string that contains an apostrophe
\* (and no double quote) is written between double quotes
PyRepr(x) ==
    IF IsStr(x) THEN (IF x.str \in StringsWithApostrophe
                      THEN "\"" \o x.str \o "\"" ELSE "'" \o x.str \o "'")
    ELSE IF IsNum(x) THEN ToString(x.num)
    ELSE IF x = PyNone THEN "None"
    ELSE IF IsList(x) THEN
        "[" \o Join([i \in 1..Len(x.list) |-> PyRepr(x.list[i])], ", ") \o "]"
    ELSE IF IsDict(x) THEN
        "{" \o Join([i \in 1..Len(x.dict) |->
                        "'" \o x.dict[i].k \o "': " \o PyRepr(x.dict[i].v)], ", ") \o "}"
    ELSE "False"

\* str(x)
PyStr(x) == IF IsStr(x) THEN x.str ELSE PyRepr(x)

RECURSIVE Spaces(_)
Spaces(n) == IF n = 0 THEN "" ELSE " " \o Spaces(n - 1)

RECURSIVE json_dumps_at(_, _)
\* json.dumps(x, indent=4) of a value nested at the given level
json_dumps_at(x, level) ==
    LET pad == Spaces(4 * (level + 1))
        close == "\n" \o Spaces(4 * level)
    IN
    IF IsStr(x) THEN "\"" \o x.str \o "\""
    ELSE IF IsNum(x) THEN ToString(x.num)
    ELSE IF x = PyNone THEN "null"
    ELSE IF IsList(x) THEN
        (IF x.list = <<>> THEN "[]"
         ELSE "[\n" \o pad
              \o Join([i \in 1..Len(x.list) |-> json_dumps_at(x.list[i], level + 1)],
                      ",\n" \o pad)
              \o close \o "]")
    ELSE IF IsDict(x) THEN
        (IF x.dict = <<>> THEN "{}"
         ELSE "{\n" \o pad
              \o Join([i \in 1..Len(x.dict) |->
                          "\"" \o x.dict[i].k \o "\": "
                              \o json_dumps_at(x.dict[i].v, level + 1)],
                      ",\n" \o pad)
              \o close \o "}")
    ELSE "false"

\* json.dumps(x, indent=4)
json_dumps(x) == json_dumps_at(x, 0)

---------------------------------------------------------------------------
(* regularise.py *)

\* the loop of regularise_charjson (regularise_loop); the same with repr()
\* in place of str() (regularise_loop_repr); and the same without the skip
\* of elements whose value is None (regularise_loop_keep_null)
RECURSIVE regularise_loop_keep_null(_, _, _)
regularise_loop_keep_null(chars, i, new_dict) ==
    IF i > Len(chars) THEN JList(new_dict)
    ELSE LET char == chars[i] IN
        IF ~IsDict(char) THEN Raise("AttributeError")
        ELSE IF Keys(char) # {"characteristic", "value"} THEN PyNone
        ELSE regularise_loop_keep_null(chars, i + 1,
                 Append(new_dict, Set(char, "value", JStr(PyStr(Get(char, "value"))))))

RECURSIVE regularise_loop_repr(_, _, _)
regularise_loop_repr(chars, i, new_dict) ==
    IF i > Len(chars) THEN JList(new_dict)
    ELSE LET char == chars[i] IN
        IF ~IsDict(char) THEN Raise("AttributeError")
        ELSE IF Keys(char) # {"characteristic", "value"} THEN PyNone
        ELSE IF Get(char, "value") = PyNone THEN regularise_loop_repr(chars, i + 1, new_dict)
        ELSE regularise_loop_repr(chars, i + 1,
                 Append(new_dict, Set(char, "value", JStr(PyRepr(Get(char, "value"))))))

RECURSIVE regularise_loop(_, _, _)
regularise_loop(chars, i, new_dict) ==
    IF i > Len(chars) THEN JList(new_dict)
    ELSE LET char == chars[i] IN
        IF ~IsDict(char) THEN Raise("AttributeError")      \* char.keys() on a non-dict
        ELSE IF Keys(char) # {"characteristic", "value"} THEN PyNone
        ELSE IF Get(char, "value") = PyNone THEN regularise_loop(chars, i + 1, new_dict)
        ELSE regularise_loop(chars, i + 1,
                 Append(new_dict, Set(char, "value", JStr(PyStr(Get(char, "value"))))))

regularise_charjson(chars) ==
    IF ~IsList(chars) THEN PyNone
    ELSE regularise_loop(chars.list, 1, <<>>)

RECURSIVE regularise_loop_after(_, _)
\* the caller's list when the loop ends: char['value'] = str(char['value'])
\* assigns into the element of the list it was given
regularise_loop_after(chars, i) ==
    IF i > Len(chars) THEN chars
    ELSE LET char == chars[i] IN
        IF ~IsDict(char) THEN chars
        ELSE IF Keys(char) # {"characteristic", "value"} THEN chars
        ELSE IF Get(char, "value") = PyNone THEN regularise_loop_after(chars, i + 1)
        ELSE regularise_loop_after(
                 [chars EXCEPT ![i] = Set(char, "value", JStr(PyStr(Get(char, "value"))))],
                 i + 1)

\* the argument of regularise_charjson as the call leaves it
regularise_charjson_after(chars) ==
    IF ~IsList(chars) THEN chars
    ELSE JList(regularise_loop_after(chars.list, 1))

---------------------------------------------------------------------------
(* Prompts and samples.  A template is a sequence of text pieces; the     *)
(* prompt text is their concatenation.                                    *)

sys_prompt == "SYSTEM"
init_prompt == <<"INIT ", "[DESCRIPTION]">>
accum_prompt == <<"ACCUM ", "[CHARACTER_LIST]", " FOR ", "[DESCRIPTION]">>
tab_init_prompt == <<"TABULATE ", "[DESCRIPTIONS]">>
f_prompt == <<"MISSING ", "[MISSING_WORDS]", " CHARS ", "[CHARACTER_LIST]", " FOR ", "[DESCRIPTION]">>

\* str.replace(placeholder, text) on a template
replace(template, placeholder, text) ==
    [i \in 1..Len(template) |-> IF template[i] = placeholder THEN text ELSE template[i]]

\* the text of a template
Text(template) == Join(template, "")

\* the k-th input sample (sample id, description)
Descs == <<"tree tall", "leaf red">>
Sample(k) == [spid |-> "sp" \o ToString(k), desc |-> Descs[((k - 1) % Len(Descs)) + 1]]

\* the vocabulary in sorted order, and the meaningful words of each text
Vocabulary == <<"5", "habit", "height", "leaf", "red", "tall", "tree">>
WordsOfDesc(desc) == IF desc = "tree tall" THEN {"tree", "tall"} ELSE {"leaf", "red"}
WordsOfChars(char_json) ==
    UNION {{Get(char_json.list[i], "characteristic").str, Get(char_json.list[i], "value").str} :
              i \in 1..Len(char_json.list)}

\* process_words.get_omissions: words of the description absent from the records
get_omissions(desc, char_json) == WordsOfDesc(desc) \ WordsOfChars(char_json)

RECURSIVE SortedFrom(_, _)
SortedFrom(words, i) ==
    IF i > Len(Vocabulary) THEN <<>>
    ELSE (IF Vocabulary[i] \in words THEN <<Vocabulary[i]>> ELSE <<>>) \o SortedFrom(words, i + 1)
\* sorted(words)
sorted(words) == SortedFrom(words, 1)

\* the descriptions of a script run, and the samples tabulated at its start
AllDescs == [k \in 1..MaxSteps |-> Sample(k).desc]
NumTab == IF initspnum < MaxSteps THEN initspnum ELSE MaxSteps
TabSpids == [k \in 1..NumTab |-> Sample(k).spid]

---------------------------------------------------------------------------
(* Backend responses.  A response is the raw text the backend returned.   *)

RNotJson == "Here is the list: habit, height"
RDict == "{\"characteristic\": \"habit\", \"value\": \"tree\"}"
RWrongKeys == "[{\"characteristic\": \"habit\", \"colour\": \"red\"}]"
RNonDict == "[1]"
RTwo == "[{\"characteristic\": \"habit\", \"value\": \"tree\"}, {\"characteristic\": \"height\", \"value\": 5}]"
RThree == "[{\"characteristic\": \"habit\", \"value\": \"tree\"}, {\"characteristic\": \"height\", \"value\": \"tall\"}, {\"characteristic\": \"leaf\", \"value\": \"red\"}]"
RNull == "[{\"characteristic\": \"habit\", \"value\": \"tree\"}, {\"characteristic\": \"height\", \"value\": null}, {\"characteristic\": \"leaf\", \"value\": \"red\"}]"

\* a record with a number as value followed by an element with other keys
RMixed == "[{\"characteristic\": \"height\", \"value\": 5}, {\"characteristic\": \"habit\", \"colour\": \"red\"}]"
\* a characteristic name with a capital letter
RUpper == "[{\"characteristic\": \"Habit\", \"value\": \"tree\"}]"
\* strings between apostrophes, as Python prints a list of dicts: not JSON
RSingle == "[{'characteristic': 'habit', 'value': 'tree'}]"
ROne == "[{\"characteristic\": \"habit\", \"value\": \"tree\"}]"

\* a single record whose name is none of those of RTwo
RLeaf == "[{\"characteristic\": \"leaf\", \"value\": \"red\"}]"

RApos == "[{\"characteristic\": \"habit\", \"value\": \"bird's nest\"}]"

\* responses to the tabulation call: a well-formed table over the tabulated
\* sample ids, and one whose second row lacks the last sample id
TabRow(name, vals) == JDict(<<KV("characteristic", JStr(name)), KV("values", JDict(vals))>>)
TabGoodJson ==
    JList(<<TabRow("habit", [k \in 1..NumTab |-> KV(TabSpids[k], JStr("tree"))]),
            TabRow("height", [k \in 1..NumTab |->
                                 KV(TabSpids[k], IF k = 1 THEN JNum(5) ELSE JStr("NA"))])>>)
TabMissingJson ==
    JList(<<TabRow("habit", [k \in 1..NumTab |-> KV(TabSpids[k], JStr("tree"))]),
            TabRow("height", [k \in 1..(NumTab - 1) |-> KV(TabSpids[k], JStr("tall"))])>>)
\* a table whose first row has a sample id that is not tabulated, and one
\* whose second row has the keys of a flat record
TabExtraJson ==
    JList(<<TabRow("habit", [k \in 1..(NumTab + 1) |->
                                KV(IF k <= NumTab THEN TabSpids[k] ELSE "spX", JStr("tree"))])>>)
TabWrongKeysJson ==
    JList(<<TabRow("habit", [k \in 1..NumTab |-> KV(TabSpids[k], JNum(5))]),
            Char("height", JStr("tall"))>>)
RTabGood == json_dumps(TabGoodJson)
RTabMissing == json_dumps(TabMissingJson)
RTabExtra == json_dumps(TabExtraJson)
RTabWrongKeys == json_dumps(TabWrongKeysJson)
TableResponses == {RNotJson, RDict, RNonDict, RTwo, RTabGood, RTabMissing, RTabExtra,
                   RTabWrongKeys}

\* the responses the accumulators are run against, and the wider set the
\* stateless extraction functions are run against
Responses == {RNotJson, RWrongKeys, RNonDict, RTwo, RThree, RNull}
AllResponses == Responses \cup {RDict, RApos, RUpper}
\* the responses the single-sample seed is run against
SeedResponses == Responses \cup {RLeaf}
\* the responses the parsing functions are called with on their own
ParseResponses == AllResponses \cup {RMixed, RSingle}

\* text.replace("'", '"')
ReplaceApostrophes(text) ==
    IF text = RApos THEN "[{\"characteristic\": \"habit\", \"value\": \"bird\"s nest\"}]"
    ELSE IF text = RSingle THEN ROne
    ELSE text

\* json.loads(text): the decoded value, or JSONDecodeError
json_loads(text) ==
    CASE text = RDict -> JDict(<<KV("characteristic", JStr("habit")), KV("value", JStr("tree"))>>)
      [] text = RWrongKeys ->
            JList(<<JDict(<<KV("characteristic", JStr("habit")), KV("colour", JStr("red"))>>)>>)
      [] text = RNonDict -> JList(<<JNum(1)>>)
      [] text = RTwo -> JList(<<Char("habit", JStr("tree")), Char("height", JNum(5))>>)
      [] text = RThree ->
            JList(<<Char("habit", JStr("tree")), Char("height", JStr("tall")),
                    Char("leaf", JStr("red"))>>)
      [] text = RNull ->
            JList(<<Char("habit", JStr("tree")), Char("height", PyNone),
                    Char("leaf", JStr("red"))>>)
      [] text = RTabGood -> TabGoodJson
      [] text = RTabMissing -> TabMissingJson
      [] text = RTabExtra -> TabExtraJson
      [] text = RTabWrongKeys -> TabWrongKeysJson
      [] text = RApos -> JList(<<Char("habit", JStr("bird's nest"))>>)
      [] text = RMixed ->
            JList(<<Char("height", JNum(5)),
                    JDict(<<KV("characteristic", JStr("habit")), KV("colour", JStr("red"))>>)>>)
      [] text = RUpper -> JList(<<Char("Habit", JStr("tree"))>>)
      [] text = ROne -> JList(<<Char("habit", JStr("tree"))>>)
      [] text = RLeaf -> JList(<<Char("leaf", JStr("red"))>>)
      [] OTHER -> Raise("JSONDecodeError")

---------------------------------------------------------------------------
(* llmcharjsonprocessor.py *)

\* a char_json result
CharJson(status, data) == [status |-> status, data |-> data]

\* regulariser(resp_json): the regulariser is called with one argument, which
\* regularise_table, taking two, rejects
call_regulariser(regulariser, resp_json) ==
    IF regulariser = "regularise_charjson" THEN regularise_charjson(resp_json)
    ELSE Raise("TypeError")
\* resp_json after the call of the regulariser
call_regulariser_after(regulariser, resp_json) ==
    IF regulariser = "regularise_charjson" THEN regularise_charjson_after(resp_json)
    ELSE resp_json

\* LLMCharJSONProcessor.parse_llm_response; an exception other than
\* JSONDecodeError is not caught and leaves the function
parse_llm_response(resp, regulariser) ==
    Only({(
        IF IsRaise(resp_json) THEN CharJson("invalid_json", JStr(resp))
    ELSE Only({(
        IF IsRaise(reg_resp_json) THEN reg_resp_json
         ELSE IF reg_resp_json # PyNone THEN CharJson("success", reg_resp_json)
         ELSE CharJson("bad_structure",
                       JStr(PyStr(call_regulariser_after(regulariser, resp_json))))
        ) : reg_resp_json \in {call_regulariser(regulariser, resp_json)}})
        ) : resp_json \in {json_loads(resp)}})

\* the single-shot call client.generate(model, prompt, system)
GenerateCall(prompt, system) == [api |-> "generate", prompt |-> prompt, system |-> system]
\* the multi-turn call client.chat(model, messages)
ChatCall(messages) == [api |-> "chat", messages |-> messages]
Message(role, content) == [role |-> role, content |-> content]

\* the outcome of a backend call that failed: client.generate or client.chat
\* raised instead of returning a response
BackendError == "<the backend call raised>"

\* LLMCharJSONProcessor.prompt2charjson, given the outcome of client.generate
prompt2charjson(resp) ==
    IF resp = BackendError THEN Raise("ResponseError")
    ELSE parse_llm_response(resp, "regularise_charjson")
\* LLMCharJSONProcessor.messages2charjson, given the outcome of client.chat
messages2charjson(resp) ==
    IF resp = BackendError THEN Raise("ResponseError")
    ELSE parse_llm_response(resp, "regularise_charjson")

---------------------------------------------------------------------------
(* accumulator.py *)

\* what one call of a method did: its return value (or the exception that
\* left it), the backend calls it issued, and the object's fields afterwards
Out(ret, issued, hist, log) == [ret |-> ret, calls |-> issued, hist |-> hist, log |-> log]

\* [char['characteristic'] for char in char_json['data']]
Names(data) == [i \in 1..Len(data.list) |-> Get(data.list[i], "characteristic").str]

\* the candidate charlist and the monotonic-growth rule (new_charlist), and
\* the rule without the length comparison (new_charlist_always)
new_charlist_always(char_json, last_charlist) ==
    IF char_json.status = "success" THEN Names(char_json.data) ELSE last_charlist
new_charlist(char_json, last_charlist) ==
    LET candidate == IF char_json.status = "success"
                     THEN Names(char_json.data) ELSE last_charlist
    IN IF Len(candidate) > Len(last_charlist) THEN candidate ELSE last_charlist

\* the entry appended to sp_chars
SampleResult(spid, desc, char_json) ==
    [coreid |-> spid,
     status |-> char_json.status,
     original_description |-> desc,
     char_json |-> IF char_json.status = "success" THEN char_json.data ELSE PyNone,
     failed_str |-> IF char_json.status # "success" THEN char_json.data ELSE PyNone]

\* TraitAccumulator.extract_init_chars as written (TA_extract_init_chars),
\* and as it would be if it stored the list only after a successful seed
TA_extract_init_chars_on_success(hist, log, desc, store_results, resp) ==
    LET prompt_wcontent == replace(accum_prompt, "[DESCRIPTION]", desc)
        issued == <<GenerateCall(Text(prompt_wcontent), sys_prompt)>>
    IN  Only({(
        IF IsRaise(char_json) THEN Out(char_json, issued, hist, log)
        ELSE IF store_results /\ char_json.status = "success"
        THEN Out(char_json, issued, <<Names(char_json.data)>>, log)
        ELSE Out(char_json, issued, hist, log)
        ) : char_json \in {prompt2charjson(resp)}})
TA_extract_init_chars(hist, log, desc, store_results, resp) ==
    LET prompt_wcontent == replace(accum_prompt, "[DESCRIPTION]", desc)
        issued == <<GenerateCall(Text(prompt_wcontent), sys_prompt)>>
    IN  Only({(
        IF IsRaise(char_json) THEN Out(char_json, issued, hist, log)
        ELSE IF store_results
        THEN Out(char_json, issued,
                 <<IF char_json.status = "success" THEN Names(char_json.data) ELSE <<>>>>, log)
        ELSE Out(char_json, issued, hist, log)
        ) : char_json \in {prompt2charjson(resp)}})

\* TabTraitAccumulator.extract_init_chars
Tab_extract_init_chars(hist, log, sp_ids, descs, store_results, resp) ==
    LET desc_str == Join([i \in 1..(IF Len(sp_ids) < Len(descs) THEN Len(sp_ids) ELSE Len(descs)) |->
                             "Species ID: " \o sp_ids[i] \o "\n\nSpecies description:\n"
                                 \o descs[i]], "\n\n")
        prompt_wcontent == replace(tab_init_prompt, "[DESCRIPTIONS]", desc_str)
        issued == <<GenerateCall(Text(prompt_wcontent), sys_prompt)>>
    IN  Only({(
        IF IsRaise(char_json) THEN Out(char_json, issued, hist, log)
        ELSE IF store_results
        THEN Out(char_json, issued,
                 <<IF char_json.status = "success" THEN Names(char_json.data) ELSE <<>>>>, log)
        ELSE Out(char_json, issued, hist, log)
        ) : char_json \in {parse_llm_response(resp, "regularise_table")}})

\* the error of accum_step on an accumulator that was never seeded; without
\* the check the indexing of the empty history would raise IndexError instead
uninitialised_index_error == Raise("IndexError")
uninitialised_error == Raise("Exception")

\* accum_step as it would be if it stored whatever store_results says
TA_accum_step_storing(hist, log, spid, desc, store_results, resp) ==
    IF hist = <<>> THEN Out(uninitialised_error, <<>>, hist, log)
    ELSE
    LET last_charlist == hist[Len(hist)]
        prompt_wcontent == replace(replace(accum_prompt, "[DESCRIPTION]", desc),
                                   "[CHARACTER_LIST]", Join(last_charlist, "; "))
        issued == <<GenerateCall(Text(prompt_wcontent), sys_prompt)>>
    IN  Only({(
        IF IsRaise(char_json) THEN Out(char_json, issued, hist, log)
        ELSE Out(char_json, issued,
                 Append(hist, new_charlist(char_json, last_charlist)),
                 Append(log, SampleResult(spid, desc, char_json)))
        ) : char_json \in {prompt2charjson(resp)}})

\* TraitAccumulator.accum_step
TA_accum_step_seedlist(hist, log, spid, desc, store_results, resp) ==
    IF hist = <<>> THEN Out(uninitialised_error, <<>>, hist, log)
    ELSE
    LET last_charlist == hist[1]
        prompt_wcontent == replace(replace(accum_prompt, "[DESCRIPTION]", desc),
                                   "[CHARACTER_LIST]", Join(last_charlist, "; "))
        issued == <<GenerateCall(Text(prompt_wcontent), sys_prompt)>>
    IN  Only({(
        IF IsRaise(char_json) THEN Out(char_json, issued, hist, log)
        ELSE IF store_results
        THEN Out(char_json, issued,
                 Append(hist, new_charlist(char_json, last_charlist)),
                 Append(log, SampleResult(spid, desc, char_json)))
        ELSE Out(char_json, issued, hist, log)
        ) : char_json \in {prompt2charjson(resp)}})
TA_accum_step(hist, log, spid, desc, store_results, resp) ==
    IF hist = <<>> THEN Out(uninitialised_error, <<>>, hist, log)
    ELSE
    LET last_charlist == hist[Len(hist)]
        prompt_wcontent == replace(replace(accum_prompt, "[DESCRIPTION]", desc),
                                   "[CHARACTER_LIST]", Join(last_charlist, "; "))
        issued == <<GenerateCall(Text(prompt_wcontent), sys_prompt)>>
    IN  Only({(
        IF IsRaise(char_json) THEN Out(char_json, issued, hist, log)
        ELSE IF store_results
        THEN Out(char_json, issued,
                 Append(hist, new_charlist(char_json, last_charlist)),
                 Append(log, SampleResult(spid, desc, char_json)))
        ELSE Out(char_json, issued, hist, log)
        ) : char_json \in {prompt2charjson(resp)}})

\* the messages of the follow-up conversation
FTA_messages(last_charlist, desc, init_charjson_dat) ==
    LET omissions == get_omissions(desc, init_charjson_dat)
        followup_prompt ==
            replace(replace(replace(f_prompt, "[DESCRIPTION]", desc),
                            "[MISSING_WORDS]", Join(sorted(omissions), "; ")),
                    "[CHARACTER_LIST]", Join(last_charlist, "; "))
    IN  <<Message("system", sys_prompt),
          Message("user", Text(replace(accum_prompt, "[DESCRIPTION]", desc))),
          Message("assistant", json_dumps(init_charjson_dat)),
          Message("user", Text(followup_prompt))>>

\* the status of a follow-up result (followup_status), and the same without
\* the _followup suffix (followup_status_plain)
followup_status_plain(f_char_json) == f_char_json
followup_status(f_char_json) ==
    IF f_char_json.status # "success"
    THEN CharJson(f_char_json.status \o "_followup", f_char_json.data)
    ELSE f_char_json

\* the backend calls of a follow-up step, given what the base step did
\* (FTA_calls), and the same with the generate call repeated after a failed
\* initial response (FTA_calls_retry)
FTA_calls_retry(base, last_charlist, desc) ==
    IF base.ret.status = "success"
    THEN Append(base.calls, ChatCall(FTA_messages(last_charlist, desc, base.ret.data)))
    ELSE base.calls \o base.calls
FTA_calls(base, last_charlist, desc) ==
    IF base.ret.status = "success"
    THEN Append(base.calls, ChatCall(FTA_messages(last_charlist, desc, base.ret.data)))
    ELSE base.calls

\* the char_json of a follow-up step, given the initial one and the
\* response to the follow-up conversation (FTA_final); the same with the
\* _followup suffix put on an initial failure too (FTA_final_tagged); and
\* the same falling back to the initial result when the follow-up response
\* is unusable (FTA_final_fallback)
FTA_final_fallback(init_char_json, f_resp) ==
    IF init_char_json.status # "success" THEN init_char_json
    ELSE Only({(
        IF IsRaise(f_char_json) THEN f_char_json
              ELSE IF f_char_json.status # "success" THEN init_char_json
              ELSE f_char_json
        ) : f_char_json \in {messages2charjson(f_resp)}})
FTA_final_tagged(init_char_json, f_resp) ==
    IF init_char_json.status # "success"
    THEN CharJson(init_char_json.status \o "_followup", init_char_json.data)
    ELSE Only({(
        IF IsRaise(f_char_json) THEN f_char_json
              ELSE followup_status(f_char_json)
        ) : f_char_json \in {messages2charjson(f_resp)}})
FTA_final(init_char_json, f_resp) ==
    IF init_char_json.status # "success" THEN init_char_json
    ELSE Only({(
        IF IsRaise(f_char_json) THEN f_char_json
              ELSE followup_status(f_char_json)
        ) : f_char_json \in {messages2charjson(f_resp)}})

\* FollowupTraitAccumulator.accum_step
FTA_accum_step(hist, log, spid, desc, store_results, resp, f_resp) ==
    Only({(
        IF IsRaise(base.ret) THEN base
    ELSE
    LET last_charlist == hist[Len(hist)]
        issued == FTA_calls(base, last_charlist, desc)
    IN  Only({(
        IF IsRaise(char_json) THEN Out(char_json, issued, hist, log)
        ELSE IF store_results
        THEN Out(char_json, issued,
                 Append(hist, new_charlist(char_json, last_charlist)),
                 Append(log, SampleResult(spid, desc, char_json)))
        ELSE Out(char_json, issued, hist, log)
        ) : char_json \in {FTA_final(base.ret, f_resp)}})
        ) : base \in {TA_accum_step(hist, log, spid, desc, FALSE, resp)}})

---------------------------------------------------------------------------
(* langchainprocessor.py *)

lc_init_prompt == <<"LCINIT">>
lc_accum_prompt == <<"LCACCUM ", "[CHARACTER_LIST]">>

\* what llm_chain.invoke gives: a parsed Species, a parsing error, or an exception
LCParsed(traits) == [parsed |-> traits]
LCParsingError == [parsing_error |-> "OutputParserException"]
LCException == [exception |-> "APIError"]
LCResponses ==
    {LCParsed(<<[characteristic |-> "habit", value |-> "tree"],
                [characteristic |-> "height", value |-> "tall"]>>),
     LCParsed(<<[characteristic |-> "habit", value |-> "tree"],
                [characteristic |-> "leaf", value |-> "red"],
                [characteristic |-> "height", value |-> "tall"]>>),
     LCParsed(<<[characteristic |-> "leaf", value |-> "red"]>>),
     LCParsingError,
     LCException}

InvokeCall(system, desc) == [api |-> "invoke", system |-> system, description |-> desc]

\* LangChainCharProcessor.desc2charjson, given what the chain returned
LC_desc2charjson(response) ==
    IF DOMAIN response = {"exception"} THEN CharJson("exception_thrown", PyNone)
    ELSE IF DOMAIN response = {"parsing_error"} THEN CharJson(response.parsing_error, PyNone)
    ELSE CharJson("success",
                  JList([i \in 1..Len(response.parsed) |->
                            JDict(<<KV("characteristic", JStr(response.parsed[i].characteristic)),
                                    KV("value", JStr(response.parsed[i].value))>>)]))

\* the entry the LangChain classes append to sp_chars
LC_SampleResult(spid, desc, char_json) ==
    [coreid |-> spid,
     status |-> char_json.status,
     original_description |-> desc,
     char_json |-> char_json.data]

\* LCTraitAccumulator.extract_init_chars
LC_extract_init_chars(hist, log, desc, store_results, response) ==
    LET issued == <<InvokeCall(Text(lc_init_prompt), desc)>>
    IN  Only({(
        IF store_results
        THEN Out(char_json, issued,
                 <<IF char_json.status = "success" THEN Names(char_json.data) ELSE <<>>>>, log)
        ELSE Out(char_json, issued, hist, log)
        ) : char_json \in {LC_desc2charjson(response)}})

\* LCTraitAccumulator.accum_step
LC_accum_step(hist, log, spid, desc, store_results, response) ==
    IF hist = <<>> THEN Out(uninitialised_error, <<>>, hist, log)
    ELSE
    LET last_charlist == hist[Len(hist)]
        accum_prompt_wcharlist ==
            replace(lc_accum_prompt, "[CHARACTER_LIST]", Join(last_charlist, "; "))
        issued == <<InvokeCall(Text(accum_prompt_wcharlist), desc)>>
    IN  Only({(
        IF store_results
        THEN Out(char_json, issued,
                 Append(hist, new_charlist(char_json, last_charlist)),
                 Append(log, LC_SampleResult(spid, desc, char_json)))
        ELSE Out(char_json, issued, hist, log)
        ) : char_json \in {LC_desc2charjson(response)}})

---------------------------------------------------------------------------
(* extractor.py *)

ext_prompt == <<"EXT ", "[CHARACTER_LIST]", " FOR ", "[DESCRIPTION]">>
ext_chars == <<"habit", "height">>

\* the names of the records of the most recent entry of the log that has any
RECURSIVE LastNames(_, _)
LastNames(log, i) ==
    IF i = 0 THEN ext_chars
    ELSE IF log[i].status = "success" THEN Names(log[i].char_json)
    ELSE LastNames(log, i - 1)

\* ext_step as it would be if the list in the prompt followed the results
\* stored so far, as the list of an accumulator does
TE_ext_step_accumulating(log, spid, desc, store_results, resp) ==
    LET prompt_wcontent == replace(replace(ext_prompt, "[DESCRIPTION]", desc),
                                   "[CHARACTER_LIST]", Join(LastNames(log, Len(log)), "; "))
        issued == <<GenerateCall(Text(prompt_wcontent), sys_prompt)>>
    IN  Only({(
        IF IsRaise(char_json) THEN Out(char_json, issued, <<>>, log)
        ELSE IF store_results
        THEN Out(char_json, issued, <<>>, Append(log, SampleResult(spid, desc, char_json)))
        ELSE Out(char_json, issued, <<>>, log)
        ) : char_json \in {prompt2charjson(resp)}})

\* ext_step as it would be if storing a result replaced the most recent
\* entry of the log instead of extending the log
TE_ext_step_overwriting(log, spid, desc, store_results, resp) ==
    LET prompt_wcontent == replace(replace(ext_prompt, "[DESCRIPTION]", desc),
                                   "[CHARACTER_LIST]", Join(ext_chars, "; "))
        issued == <<GenerateCall(Text(prompt_wcontent), sys_prompt)>>
    IN  Only({(
        IF IsRaise(char_json) THEN Out(char_json, issued, <<>>, log)
        ELSE IF store_results
        THEN Out(char_json, issued, <<>>,
                 IF log = <<>> THEN <<SampleResult(spid, desc, char_json)>>
                 ELSE [log EXCEPT ![Len(log)] = SampleResult(spid, desc, char_json)])
        ELSE Out(char_json, issued, <<>>, log)
        ) : char_json \in {prompt2charjson(resp)}})

\* TraitExtractor.ext_step
TE_ext_step(log, spid, desc, store_results, resp) ==
    LET prompt_wcontent == replace(replace(ext_prompt, "[DESCRIPTION]", desc),
                                   "[CHARACTER_LIST]", Join(ext_chars, "; "))
        issued == <<GenerateCall(Text(prompt_wcontent), sys_prompt)>>
    IN  Only({(
        IF IsRaise(char_json) THEN Out(char_json, issued, <<>>, log)
        ELSE IF store_results
        THEN Out(char_json, issued, <<>>, Append(log, SampleResult(spid, desc, char_json)))
        ELSE Out(char_json, issued, <<>>, log)
        ) : char_json \in {prompt2charjson(resp)}})

\* the messages of the extractor's follow-up conversation
FTE_messages(desc, init_charjson_dat) ==
    LET omissions == get_omissions(desc, init_charjson_dat)
        followup_prompt ==
            replace(replace(replace(f_prompt, "[DESCRIPTION]", desc),
                            "[MISSING_WORDS]", Join(sorted(omissions), "; ")),
                    "[CHARACTER_LIST]", Join(ext_chars, "; "))
    IN  <<Message("system", sys_prompt),
          Message("user", Text(replace(ext_prompt, "[DESCRIPTION]", desc))),
          Message("assistant", json_dumps(init_charjson_dat)),
          Message("user", Text(followup_prompt))>>

\* the status of the extractor's follow-up result
FTE_followup_status(f_char_json) ==
    IF f_char_json.status # "success"
    THEN CharJson(f_char_json.status \o "_followup", f_char_json.data)
    ELSE f_char_json

\* FollowupTraitExtractor.ext_step
FTE_ext_step(log, spid, desc, store_results, resp, f_resp) ==
    Only({(
        IF IsRaise(base.ret) THEN base
    ELSE
    LET initial_ok == base.ret.status = "success"
        issued == IF initial_ok
                  THEN Append(base.calls, ChatCall(FTE_messages(desc, base.ret.data)))
                  ELSE base.calls
    IN  Only({(
        IF IsRaise(char_json) THEN Out(char_json, issued, <<>>, log)
        ELSE IF store_results
        THEN Out(char_json, issued, <<>>, Append(log, SampleResult(spid, desc, char_json)))
        ELSE Out(char_json, issued, <<>>, log)
        ) : char_json \in {IF ~initial_ok THEN base.ret ELSE Only({( IF IsRaise(f_char_json) THEN f_char_json ELSE FTE_followup_status(f_char_json) ) : f_char_json \in {messages2charjson(f_resp)}})}})
        ) : base \in {TE_ext_step(log, spid, desc, FALSE, resp)}})

\* LCTraitExtractor.ext_step (langchainprocessor.py)
lc_ext_prompt == <<"LCEXT ", "[CHARACTER_LIST]">>
LC_ext_step(log, spid, desc, store_results, response) ==
    LET prompt_wcontent == replace(lc_ext_prompt, "[CHARACTER_LIST]", Join(ext_chars, "; "))
        issued == <<InvokeCall(Text(prompt_wcontent), desc)>>
    IN  Only({(
        IF store_results
        THEN Out(char_json, issued, <<>>, Append(log, LC_SampleResult(spid, desc, char_json)))
        ELSE Out(char_json, issued, <<>>, log)
        ) : char_json \in {LC_desc2charjson(response)}})

\* Extraction by several workers (threads) that share one TraitExtractor or
\* one FollowupTraitExtractor.  PoolSize samples are handed out, at most
\* MaxWorkers ext_step calls are in progress at a time, and the backend of a
\* run is deterministic: a function from the prompt to the outcome of
\* client.generate, and from the messages to the outcome of client.chat.
PoolSize == 3
MaxWorkers == 2
PoolPrompts ==
    {Text(replace(replace(ext_prompt, "[DESCRIPTION]", Sample(k).desc),
                  "[CHARACTER_LIST]", Join(ext_chars, "; "))) : k \in 1..PoolSize}
PoolMessages ==
    {FTE_messages(Sample(k).desc, prompt2charjson(RTwo).data) : k \in 1..PoolSize}
GenerateOutcomes == {RTwo, RWrongKeys, RNotJson, BackendError}
ChatOutcomes == {RThree, RNotJson, BackendError}
Backends(v) ==
    CASE v = "te_workers" ->
            {[generate |-> g, chat |-> <<>>] : g \in [PoolPrompts -> GenerateOutcomes]}
      [] v = "fte_workers" ->
            {[generate |-> g, chat |-> c] :
                g \in [PoolPrompts -> {RTwo, RNotJson}], c \in [PoolMessages -> ChatOutcomes]}
      [] OTHER -> {<<>>}
generate(b, prompt) ==
    IF prompt \in DOMAIN b.generate THEN b.generate[prompt] ELSE RNotJson
chat(b, messages) ==
    IF messages \in DOMAIN b.chat THEN b.chat[messages] ELSE RNotJson

\* where the ext_step call for a sample is: not made yet, waiting for
\* client.generate to answer the prompt it sent, waiting for client.chat to
\* answer the messages it sent (resp: what client.generate had answered),
\* returned, or left by an exception
JobTodo == [at |-> "todo"]
JobGenerating(prompt) == [at |-> "generate", prompt |-> prompt]
JobChatting(resp, messages) == [at |-> "chat", resp |-> resp, messages |-> messages]
JobReturned == [at |-> "returned"]
JobRaised == [at |-> "raised"]

\* ext_step of the class the workers share
Pool_ext_step(v, log, k, resp, f_resp) ==
    IF v = "te_workers"
    THEN TE_ext_step(log, Sample(k).spid, Sample(k).desc, TRUE, resp)
    ELSE FTE_ext_step(log, Sample(k).spid, Sample(k).desc, TRUE, resp, f_resp)

---------------------------------------------------------------------------
(* regularise.regularise_table *)

RECURSIVE regularise_table_loop(_, _, _, _)
regularise_table_loop(table, spids, i, new_table) ==
    IF i > Len(table) THEN JList(new_table)
    ELSE LET char == table[i] IN
        IF ~IsDict(char) THEN Raise("AttributeError")
        ELSE IF Keys(char) # {"characteristic", "values"} THEN PyFalse
        ELSE IF ~IsDict(Get(char, "values")) THEN Raise("AttributeError")
        ELSE IF Keys(Get(char, "values")) # {spids[j] : j \in 1..Len(spids)} THEN PyFalse
        ELSE LET vals == Get(char, "values").dict IN
             regularise_table_loop(table, spids, i + 1,
                 Append(new_table,
                        Set(char, "values",
                            JDict([j \in 1..Len(vals) |->
                                      KV(vals[j].k, JStr(PyStr(vals[j].v)))]))))

regularise_table(table, spids) ==
    IF ~IsList(table) THEN PyNone
    ELSE regularise_table_loop(table.list, spids, 1, <<>>)

RECURSIVE regularise_table_loop_after(_, _, _)
\* the caller's list when the loop ends: char['values'] = {...} assigns into
\* the element of the list it was given
regularise_table_loop_after(table, spids, i) ==
    IF i > Len(table) THEN table
    ELSE LET char == table[i] IN
        IF ~IsDict(char) THEN table
        ELSE IF Keys(char) # {"characteristic", "values"} THEN table
        ELSE IF ~IsDict(Get(char, "values")) THEN table
        ELSE IF Keys(Get(char, "values")) # {spids[j] : j \in 1..Len(spids)} THEN table
        ELSE LET vals == Get(char, "values").dict IN
             regularise_table_loop_after(
                 [table EXCEPT ![i] =
                     Set(char, "values",
                         JDict([j \in 1..Len(vals) |-> KV(vals[j].k, JStr(PyStr(vals[j].v)))]))],
                 spids, i + 1)

\* the argument of regularise_table as the call leaves it
regularise_table_after(table, spids) ==
    IF ~IsList(table) THEN table
    ELSE JList(regularise_table_loop_after(table.list, spids, 1))

---------------------------------------------------------------------------
(* scripts/desc2matrix/common_scripts/process_descs.py *)

\* what one call of a function did: its return value and the calls it issued
FOut(ret, issued) == [ret |-> ret, calls |-> issued]

\* the legacy parsing block of desc2charjson
PD_parse(resp) ==
    Only({(
        IF IsRaise(resp_json) THEN CharJson("invalid_json", JStr(resp))
    ELSE Only({(
        IF IsRaise(reg_resp_json) THEN reg_resp_json
         ELSE IF reg_resp_json # PyNone THEN CharJson("success", reg_resp_json)
         ELSE CharJson("bad_structure", JStr(PyStr(regularise_charjson_after(resp_json))))
        ) : reg_resp_json \in {regularise_charjson(resp_json)}})
        ) : resp_json \in {json_loads(ReplaceApostrophes(resp))}})

\* process_descs.desc2charjson with a list of characteristics
PD_desc2charjson(prompt, desc, chars, resp) ==
    LET prompt_wcontent == replace(replace(prompt, "[DESCRIPTION]", desc),
                                   "[CHARACTER_LIST]", Join(chars, "; "))
    IN  FOut(PD_parse(resp), <<GenerateCall(Text(prompt_wcontent), sys_prompt)>>)

\* the parsing block of desc2charjson_followup
PD_parse_followup(followup_resp) ==
    Only({(
        IF IsRaise(resp_json) THEN CharJson("invalid_json_followup", JStr(followup_resp))
    ELSE Only({(
        IF IsRaise(reg_resp_json) THEN reg_resp_json
         ELSE IF reg_resp_json # PyFalse THEN CharJson("success", reg_resp_json)
         ELSE CharJson("bad_structure_followup",
                       JStr(PyStr(regularise_charjson_after(resp_json))))
        ) : reg_resp_json \in {regularise_charjson(resp_json)}})
        ) : resp_json \in {json_loads(ReplaceApostrophes(followup_resp))}})

\* the messages of desc2charjson_followup
PD_messages(prompt, f_prompt_, desc, chars, init_char_json) ==
    LET omissions == get_omissions(desc, init_char_json)
        followup_prompt ==
            replace(replace(replace(f_prompt_, "[DESCRIPTION]", desc),
                            "[MISSING_WORDS]", Join(sorted(omissions), "; ")),
                    "[CHARACTER_LIST]", Join(chars, "; "))
    IN  <<Message("system", sys_prompt),
          Message("user", Text(replace(prompt, "[DESCRIPTION]", desc))),
          Message("assistant", json_dumps(init_char_json)),
          Message("user", Text(followup_prompt))>>

\* process_descs.desc2charjson_followup
PD_desc2charjson_followup(prompt, f_prompt_, desc, chars, resp, followup_resp) ==
    Only({(
        IF IsRaise(init_raw_char_json.ret) THEN init_raw_char_json
    ELSE IF init_raw_char_json.ret.status # "success" THEN init_raw_char_json
    ELSE FOut(PD_parse_followup(followup_resp),
              Append(init_raw_char_json.calls,
                     ChatCall(PD_messages(prompt, f_prompt_, desc, chars,
                                          init_raw_char_json.ret.data))))
        ) : init_raw_char_json \in {PD_desc2charjson(prompt, desc, chars, resp)}})

\* process_descs.get_char_table
tab_prompt == <<"TABULATE ", "[DESCRIPTIONS]">>
DescStr(spids, descs) ==
    Join([i \in 1..Len(spids) |->
             "Species ID: " \o spids[i] \o "\n\nSpecies description:\n" \o descs[i]], "\n\n")
PD_get_char_table(prompt, spids, descs, resp) ==
    LET issued == <<GenerateCall(Text(replace(prompt, "[DESCRIPTIONS]", DescStr(spids, descs))),
                                 sys_prompt)>>
    IN  Only({(
        IF IsRaise(resp_json) THEN FOut(CharJson("invalid_json", JStr(resp)), issued)
        ELSE Only({(
            IF IsRaise(reg_resp_json) THEN FOut(reg_resp_json, issued)
             ELSE IF reg_resp_json # PyNone
             THEN FOut(CharJson("success", reg_resp_json), issued)
             ELSE FOut(CharJson("bad_structure",
                                JStr(PyStr(regularise_table_after(resp_json, spids)))), issued)
            ) : reg_resp_json \in {regularise_table(resp_json, spids)}})
        ) : resp_json \in {json_loads(ReplaceApostrophes(resp))}})

---------------------------------------------------------------------------
(* desc2matrix_accum_tab.py: main *)

\* what a stretch of main() did: where it stands, the history and the list
\* of results afterwards, and the value or exception of its last call
MOut(at, hist, log, ret, issued) ==
    [pc |-> at, hist |-> hist, log |-> log, ret |-> ret, calls |-> issued]

\* initial tabulation, up to the loop
TabMain_seed(resp) ==
    Only({(
        IF IsRaise(chars_tab.ret) THEN MOut("crashed", <<>>, <<>>, chars_tab.ret, chars_tab.calls)
    ELSE IF chars_tab.ret.status # "success"
    THEN MOut("crashed", <<>>, <<>>, Raise("Exception"), chars_tab.calls)
    ELSE IF ~IsList(chars_tab.ret.data)
    THEN MOut("crashed", <<>>, <<>>, Raise("TypeError"), chars_tab.calls)
    ELSE MOut("loop", <<Names(chars_tab.ret.data)>>, <<>>, chars_tab.ret, chars_tab.calls)
        ) : chars_tab \in {PD_get_char_table(tab_prompt, TabSpids, AllDescs, resp)}})

\* one iteration of the loop with no entry appended after a failed parse
TabMain_iteration_skipping(hist, log, rowid, spid, desc, resp) ==
    IF rowid + 1 > Len(hist) THEN MOut("crashed", hist, log, Raise("IndexError"), <<>>)
    ELSE
    LET chars == hist[rowid + 1] IN
    Only({(
        LET char_json == out.ret IN
        IF IsRaise(char_json) THEN MOut("crashed", hist, log, char_json, out.calls)
        ELSE MOut("loop",
                  IF char_json.status = "success"
                  THEN Append(hist,
                              IF Len(Names(char_json.data)) > Len(hist[rowid + 1])
                              THEN Names(char_json.data) ELSE hist[rowid + 1])
                  ELSE hist,
                  Append(log, SampleResult(spid, desc, char_json)),
                  char_json, out.calls)
        ) : out \in {PD_desc2charjson(accum_prompt, desc, chars, resp)}})

\* one iteration of the loop over the descriptions
TabMain_iteration(hist, log, rowid, spid, desc, resp) ==
    IF rowid + 1 > Len(hist) THEN MOut("crashed", hist, log, Raise("IndexError"), <<>>)
    ELSE
    LET chars == hist[rowid + 1] IN
    Only({(
        LET char_json == out.ret IN
        IF IsRaise(char_json) THEN MOut("crashed", hist, log, char_json, out.calls)
        ELSE MOut("loop",
                  Append(hist,
                         IF char_json.status = "success"
                         THEN (IF Len(Names(char_json.data)) > Len(hist[rowid + 1])
                               THEN Names(char_json.data) ELSE hist[rowid + 1])
                         ELSE hist[rowid + 1]),
                  Append(log, SampleResult(spid, desc, char_json)),
                  char_json, out.calls)
        ) : out \in {PD_desc2charjson(accum_prompt, desc, chars, resp)}})

---------------------------------------------------------------------------
(* legacy_scripts/desc2matrix_wcharlist_followup.py: main *)

\* one iteration of the loop over the descriptions
WFMain_iteration(log, spid, desc, resp, followup_resp) ==
    Only({(
        LET char_json == out.ret IN
        IF IsRaise(char_json) THEN MOut("crashed", <<>>, log, char_json, out.calls)
        ELSE MOut("loop", <<>>, Append(log, SampleResult(spid, desc, char_json)),
                  char_json, out.calls)
        ) : out \in {PD_desc2charjson_followup(ext_prompt, f_prompt, desc, ext_chars, resp, followup_resp)}})

---------------------------------------------------------------------------
(* desc2matrix_followup.py and quality_control/desc2matrix_qc.py: word     *)
(* sets.  A text is a sequence of one-character strings.                   *)

Digits == {"0", "1", "2", "3", "4", "5", "6", "7", "8", "9"}

\* c is matched by [0-9] (class "digit") or by [^0-9] (class "nondigit")
InClass(c, class) == IF class = "digit" THEN c \in Digits ELSE c \notin Digits

\* the first position at or after i that holds no space: what  " *"  consumes
RECURSIVE SkipSpaces(_, _)
SkipSpaces(text, i) ==
    IF i <= Len(text) /\ text[i] = " " THEN SkipSpaces(text, i + 1) ELSE i

\* where the match of  left " *" "\." " *" right  that starts at i ends
\* (0: no match at i); when the character after the spaces is not of the
\* right class the last space consumed is given back and matched instead
PeriodMatchEnd(text, i, left, right) ==
    IF i > Len(text) \/ ~InClass(text[i], left) THEN 0
    ELSE LET j == SkipSpaces(text, i + 1) IN
         IF j > Len(text) \/ text[j] # "." THEN 0
         ELSE LET k == SkipSpaces(text, j + 1) IN
              IF k <= Len(text) /\ InClass(text[k], right) THEN k
              ELSE IF k - 1 > j /\ InClass(" ", right) THEN k - 1
              ELSE 0

\* re.sub(left " *\. *" right, '. ', text), from position i on
RECURSIVE SubPeriod(_, _, _, _)
SubPeriod(text, i, left, right) ==
    IF i > Len(text) THEN <<>>
    ELSE IF PeriodMatchEnd(text, i, left, right) > 0
    THEN <<".", " ">> \o SubPeriod(text, PeriodMatchEnd(text, i, left, right) + 1, left, right)
    ELSE <<text[i]>> \o SubPeriod(text, i + 1, left, right)

\* re.sub(" *" ch " *", repl, text), from position i on
RECURSIVE SubPunct(_, _, _, _)
SubPunct(text, i, ch, repl) ==
    IF i > Len(text) THEN <<>>
    ELSE IF SkipSpaces(text, i) <= Len(text) /\ text[SkipSpaces(text, i)] = ch
    THEN repl \o SubPunct(text, SkipSpaces(text, SkipSpaces(text, i) + 1), ch, repl)
    ELSE <<text[i]>> \o SubPunct(text, i + 1, ch, repl)

\* re.sub('([0-9]) *- *([0-9])', r'\1-\2', text), from position i on;
\* min_spaces = 1 for the pattern '([0-9]) *- * ([0-9])'
RangeMatchEnd(text, i, min_spaces) ==
    IF i > Len(text) \/ text[i] \notin Digits THEN 0
    ELSE LET j == SkipSpaces(text, i + 1) IN
         IF j > Len(text) \/ text[j] # "-" THEN 0
         ELSE LET k == SkipSpaces(text, j + 1) IN
              IF k <= Len(text) /\ text[k] \in Digits /\ k - (j + 1) >= min_spaces
              THEN k ELSE 0
RECURSIVE SubRange(_, _, _)
SubRange(text, i, min_spaces) ==
    IF i > Len(text) THEN <<>>
    ELSE IF RangeMatchEnd(text, i, min_spaces) > 0
    THEN <<text[i], "-", text[RangeMatchEnd(text, i, min_spaces)]>>
             \o SubRange(text, RangeMatchEnd(text, i, min_spaces) + 1, min_spaces)
    ELSE <<text[i]>> \o SubRange(text, i + 1, min_spaces)

\* the substitutions for comma, colon, semicolon and brackets
SubPuncts(text) ==
    SubPunct(SubPunct(SubPunct(SubPunct(SubPunct(text, 1, ",", <<",", " ">>),
                                        1, ":", <<":", " ">>),
                               1, ";", <<";", " ">>),
                      1, "(", <<" ", "(">>),
             1, ")", <<")", " ">>)

\* get_word_set, the part that inserts whitespace around punctuation:
\* desc2matrix_followup.py (one period pattern) and
\* quality_control/desc2matrix_qc.py (three period patterns)
FU_spacing(descstr) == SubPuncts(SubPeriod(descstr, 1, "nondigit", "nondigit"))
QC_spacing(descstr) ==
    SubPuncts(SubPeriod(SubPeriod(SubPeriod(descstr, 1, "nondigit", "nondigit"),
                                  1, "nondigit", "digit"),
                        1, "digit", "nondigit"))

\* nltk.word_tokenize on the texts used here: words are separated by
\* whitespace, a punctuation character is a token of its own, a period
\* between two digits stays inside the number
TokenPunctuation == {".", ",", ":", ";", "(", ")"}
RECURSIVE word_tokenize_from(_, _, _)
word_tokenize_from(text, i, cur) ==
    IF i > Len(text) THEN (IF cur = <<>> THEN <<>> ELSE <<cur>>)
    ELSE IF text[i] \in {" ", "\n"}
    THEN (IF cur = <<>> THEN <<>> ELSE <<cur>>) \o word_tokenize_from(text, i + 1, <<>>)
    ELSE IF text[i] \in TokenPunctuation
            /\ ~(text[i] = "." /\ cur # <<>> /\ cur[Len(cur)] \in Digits
                 /\ i < Len(text) /\ text[i + 1] \in Digits)
    THEN (IF cur = <<>> THEN <<>> ELSE <<cur>>) \o <<(<<text[i]>>)>>
             \o word_tokenize_from(text, i + 1, <<>>)
    ELSE word_tokenize_from(text, i + 1, Append(cur, text[i]))
word_tokenize(text) == word_tokenize_from(text, 1, <<>>)

\* str.lower of a token, as a string
LowerChar(c) == CASE c = "T" -> "t" [] c = "L" -> "l" [] OTHER -> c
lower(w) == Join([i \in 1..Len(w) |-> LowerChar(w[i])], "")

\* stopwords.words('english'), the ones that matter for the texts used here
stop_words == {"a", "the", "of", "and", "is"}

\* the words nltk.pos_tag tags NN, NNS, NNP or NNPS
Nouns == {"tree", "trees", "leaf", "leaves", "habit", "height"}

\* get_word_set of desc2matrix_followup.py.  inf is the inflect module there
\* (import inflect as inf), which has no singular_noun: singularising the
\* first noun raises AttributeError
FU_get_word_set(descstr) ==
    Only({(
        LET descset == ({lower(tokens[i]) : i \in 1..Len(tokens)} \ stop_words)
                           \ {".", ",", ":", ";", "\"", "'", "(", ")"}
            descset_n == descset \cap Nouns
        IN  IF descset_n # {} THEN Raise("AttributeError") ELSE [set |-> descset]
        ) : tokens \in {word_tokenize(SubRange(FU_spacing(descstr), 1, 1))}})

\* the characters of the strings that occur in the records
Chars(str) ==
    CASE str = "habit" -> <<"h", "a", "b", "i", "t">>
      [] str = "height" -> <<"h", "e", "i", "g", "h", "t">>
      [] str = "leaf" -> <<"l", "e", "a", "f">>
      [] str = "tree" -> <<"t", "r", "e", "e">>
      [] str = "tall" -> <<"t", "a", "l", "l">>
      [] str = "red" -> <<"r", "e", "d">>
      [] str = "5" -> <<"5">>

\* '\n'.join(['{}: {}'.format(char['characteristic'], char['value']) ...])
RECURSIVE compiled_charstr_from(_, _)
compiled_charstr_from(char_json, i) ==
    IF i > Len(char_json.list) THEN <<>>
    ELSE (IF i > 1 THEN <<"\n">> ELSE <<>>)
             \o Chars(Get(char_json.list[i], "characteristic").str) \o <<":", " ">>
             \o Chars(Get(char_json.list[i], "value").str)
             \o compiled_charstr_from(char_json, i + 1)

\* get_omissions of desc2matrix_followup.py: the function computes the
\* difference and ends without a return statement
FU_get_omissions(desc, char_json) ==
    Only({(
        IF IsRaise(out_words) THEN out_words
        ELSE Only({(
            IF IsRaise(desc_words) THEN desc_words
            ELSE Only({(PyNone) : omissions \in {desc_words.set \ out_words.set}})
            ) : desc_words \in {FU_get_word_set(desc)}})
        ) : out_words \in {FU_get_word_set(compiled_charstr_from(char_json, 1))}})

\* inf.singular_noun of the inflect engine of desc2matrix_qc.py: the
\* singular of a plural noun, False for a word that is not a plural
singular_noun(w) ==
    CASE w = "leaves" -> [found |-> TRUE, word |-> "leaf"]
      [] w = "trees" -> [found |-> TRUE, word |-> "tree"]
      [] OTHER -> [found |-> FALSE]

\* get_word_set of quality_control/desc2matrix_qc.py
QC_get_word_set(descstr) ==
    Only({(
        LET descset == ({lower(tokens[i]) : i \in 1..Len(tokens)} \ stop_words)
                           \ {".", ",", ":", ";", "\"", "'", "(", ")"}
            descset_n == descset \cap Nouns
            descset_sing_n == {IF singular_noun(w).found THEN singular_noun(w).word ELSE w :
                                  w \in descset_n}
        IN  (descset \ descset_n) \cup descset_sing_n
        ) : tokens \in {word_tokenize(SubRange(QC_spacing(descstr), 1, 0))}})

\* round(n / d, 3), in thousandths, for d < 80: the quotient lies half-way
\* between two thousandths only when it is an odd number of sixteenths,
\* which the float holds exactly, and round() then gives the even one
round3(n, d) ==
    IF (2000 * n) % d = 0 /\ ((2000 * n) \div d) % 2 = 1
    THEN (IF ((1000 * n) \div d) % 2 = 0 THEN (1000 * n) \div d ELSE (1000 * n) \div d + 1)
    ELSE (2000 * n + d) \div (2 * d)

\* the loop body of main with the intersection taken for original_only too
QC_row_overlapping(desc_dat) ==
    Only({(
        Only({(
            IF Cardinality(descset) = 0 THEN Raise("ZeroDivisionError")
            ELSE [coreid |-> desc_dat.coreid,
                  status |-> desc_dat.status,
                  nwords_original |-> Cardinality(descset),
                  nwords_result |-> Cardinality(descset_f),
                  nwords_recovered |-> Cardinality(descset \cap descset_f),
                  nwords_omitted |-> Cardinality(descset \cap descset_f),
                  nwords_created |-> Cardinality(descset_f \ descset),
                  prop_recovered |-> round3(Cardinality(descset \cap descset_f),
                                            Cardinality(descset)),
                  common_words |-> descset \cap descset_f,
                  original_only |-> descset \cap descset_f,
                  result_only |-> descset_f \ descset]
            ) : descset_f \in {QC_get_word_set(
                    IF desc_dat.status = "success"
                    THEN compiled_charstr_from(desc_dat.char_json, 1)
                    ELSE IF "failed_str" \in DOMAIN desc_dat THEN desc_dat.failed_str
                    ELSE <<>>)}})
        ) : descset \in {QC_get_word_set(desc_dat.original_description)}})

\* main of desc2matrix_qc.py, the row of one entry of the output file: the
\* word sets of the description and of the records rendered as text (of the
\* failed text for an entry that is no success), and the counts of their
\* intersection and differences; the proportion divides by the number of
\* words of the description.  A list of words is written as its set, the
\* order sorted gives it left aside.
QC_row(desc_dat) ==
    Only({(
        Only({(
            IF Cardinality(descset) = 0 THEN Raise("ZeroDivisionError")
            ELSE [coreid |-> desc_dat.coreid,
                  status |-> desc_dat.status,
                  nwords_original |-> Cardinality(descset),
                  nwords_result |-> Cardinality(descset_f),
                  nwords_recovered |-> Cardinality(descset \cap descset_f),
                  nwords_omitted |-> Cardinality(descset \ descset_f),
                  nwords_created |-> Cardinality(descset_f \ descset),
                  prop_recovered |-> round3(Cardinality(descset \cap descset_f),
                                            Cardinality(descset)),
                  common_words |-> descset \cap descset_f,
                  original_only |-> descset \ descset_f,
                  result_only |-> descset_f \ descset]
            ) : descset_f \in {QC_get_word_set(
                    IF desc_dat.status = "success"
                    THEN compiled_charstr_from(desc_dat.char_json, 1)
                    ELSE IF "failed_str" \in DOMAIN desc_dat THEN desc_dat.failed_str
                    ELSE <<>>)}})
        ) : descset \in {QC_get_word_set(desc_dat.original_description)}})

---------------------------------------------------------------------------
(* get_summary *)

\* the model parameters given to the constructor
llm_params == [temperature |-> 0, seed |-> 1]
base_llm == "llama3"

\* the RUN_MODE_NAME of the class a variant runs
RUN_MODE_NAME(v) ==
    CASE v = "plain" -> "desc2json_accum"
      [] v = "tab" -> "desc2json_accum_tab"
      [] v = "followup" -> "desc2json_accum_followup"
      [] v = "extractor" -> "desc2json_wcharlist_followup"
      [] v = "langchain" -> "desc2json_accum_lc"

\* LLMCharJSONProcessor.get_summary: a deep copy of the metadata and the log
LLM_get_summary(v, log) ==
    [metadata |-> [params |-> llm_params, mode |-> RUN_MODE_NAME(v), sys_prompt |-> sys_prompt],
     data |-> log]

\* LangChainCharProcessor.get_summary
LC_get_summary(v, log) ==
    [metadata |-> [model_name |-> base_llm, params |-> llm_params, mode |-> RUN_MODE_NAME(v)],
     data |-> log]

\* the length of every entry of the history; and as it would be if it
\* repeated the length of the first entry
charlist_len_history_first(hist) == [i \in 1..Len(hist) |-> Len(hist[1])]
charlist_len_history(hist) == [i \in 1..Len(hist) |-> Len(hist[i])]

\* TraitAccumulator.get_summary
TA_get_summary(v, hist, log) ==
    LET outdict == LLM_get_summary(v, log) IN
    [metadata |-> [params |-> outdict.metadata.params, mode |-> outdict.metadata.mode,
                   sys_prompt |-> outdict.metadata.sys_prompt,
                   init_prompt |-> Text(IF v = "tab" THEN tab_init_prompt ELSE init_prompt),
                   prompt |-> Text(accum_prompt)],
     data |-> outdict.data,
     charlist_len_history |-> charlist_len_history(hist),
     charlist_history |-> hist]

\* FollowupTraitAccumulator.get_summary
FTA_get_summary(v, hist, log) ==
    LET outdict == TA_get_summary(v, hist, log) IN
    [outdict EXCEPT !.metadata =
        [params |-> outdict.metadata.params, mode |-> outdict.metadata.mode,
         sys_prompt |-> outdict.metadata.sys_prompt,
         init_prompt |-> outdict.metadata.init_prompt,
         prompt |-> outdict.metadata.prompt,
         f_prompt |-> Text(f_prompt)]]

\* LCTraitAccumulator.get_summary
LCTA_get_summary(v, hist, log) ==
    LET outdict == LC_get_summary(v, log) IN
    [metadata |-> [model_name |-> outdict.metadata.model_name,
                   params |-> outdict.metadata.params, mode |-> outdict.metadata.mode,
                   init_prompt |-> Text(lc_init_prompt),
                   prompt |-> Text(lc_accum_prompt)],
     data |-> outdict.data,
     charlist_len_history |-> charlist_len_history(hist),
     charlist_history |-> hist]

\* FollowupTraitExtractor.get_summary (through TraitExtractor.get_summary)
FTE_get_summary(v, log) ==
    LET outdict == LLM_get_summary(v, log) IN
    [metadata |-> [params |-> outdict.metadata.params, mode |-> outdict.metadata.mode,
                   sys_prompt |-> outdict.metadata.sys_prompt,
                   prompt |-> Text(ext_prompt),
                   charlist |-> ext_chars,
                   f_prompt |-> Text(f_prompt)],
     data |-> outdict.data]

\* get_summary of the object of a variant: the summary returned, and the
\* history and the log as the call leaves them;
\* and as it would be if it handed the log over and started a new one
get_summary_draining(v, hist, log) ==
    Out(CASE v \in {"plain", "tab"} -> TA_get_summary(v, hist, log)
          [] v = "followup" -> FTA_get_summary(v, hist, log)
          [] v = "langchain" -> LCTA_get_summary(v, hist, log)
          [] v = "extractor" -> FTE_get_summary(v, log),
        <<>>, hist, <<>>)
get_summary(v, hist, log) ==
    Out(CASE v \in {"plain", "tab"} -> TA_get_summary(v, hist, log)
          [] v = "followup" -> FTA_get_summary(v, hist, log)
          [] v = "langchain" -> LCTA_get_summary(v, hist, log)
          [] v = "extractor" -> FTE_get_summary(v, log),
        <<>>, hist, log)

\* The summary in the caller's hands after later calls.  get_summary returns
\* a dictionary whose data and metadata are deep copies and whose
\* charlist_len_history is a new list, but whose charlist_history is
\* self.charlist_history itself (the extractors' summary has none).
\* accum_step appends to that list object, so the summary reads the history
\* as the step left it; extract_init_chars binds self.charlist_history to a
\* new list and leaves the old one, and the summary, as they were.
summary_after(summary, op, store_results, hist) ==
    IF "charlist_history" \in DOMAIN summary /\ op = "step" /\ store_results
    THEN [summary EXCEPT !.charlist_history = hist]
    ELSE summary

---------------------------------------------------------------------------
(* The output file of the scripts *)

\* the file does not exist; the file was opened for writing, which empties
\* it, and the run stopped before json.dump had written all of the document
NoFile == [absent |-> TRUE]
TornFile == [torn |-> TRUE]
IsDocument(file) == "data" \in DOMAIN file

\* desc2matrix_accum_tab.py main: the document written at the end of an
\* iteration.  params is what main() builds from the options of the run:
\* --temperature 0 --seed 1, the other options at their defaults (--topk and
\* --topp have none and are None)
TabMain_outdict(hist, log) ==
    [sys_prompt |-> sys_prompt, tab_prompt |-> Text(tab_prompt), prompt |-> Text(accum_prompt),
     initspnum |-> initspnum, params |-> [temperature |-> 0, seed |-> 1, repeat_last_n |-> 0,
                num_predict |-> 2048, num_ctx |-> 4096, top_k |-> PyNone, top_p |-> PyNone],
     mode |-> "desc2json_accum_tab",
     charlist_len_history |-> charlist_len_history(hist),
     charlist_history |-> hist,
     data |-> log]

\* legacy desc2matrix_wcharlist_followup.py main: the document written at the
\* end of an iteration, params built from the options as above (--numctx
\* defaults to 32768 here)
WFMain_outdict(log) ==
    [sys_prompt |-> sys_prompt, prompt |-> Text(ext_prompt), f_prompt |-> Text(f_prompt),
     params |-> [temperature |-> 0, seed |-> 1, repeat_last_n |-> 0,
                num_predict |-> 2048, num_ctx |-> 32768, top_k |-> PyNone, top_p |-> PyNone],
     mode |-> "desc2json_wcharlist_followup",
     charlist |-> ext_chars, data |-> log]

---------------------------------------------------------------------------
(* desc2matrix.py, mode desc2json *)

d2m_prompt == "PROMPT"

\* desc2matrix.regularise_charjson: regularise.regularise_charjson with False
\* in the place of None
D2M_regularise_charjson(chars) ==
    Only({(IF reg = PyNone THEN PyFalse ELSE reg) : reg \in {regularise_charjson(chars)}})

\* one iteration of the loop of desc2matrix.desc2charjson
D2M_iteration(char_jsons, desc, resp) ==
    LET issued == <<GenerateCall(d2m_prompt \o "\n" \o desc, sys_prompt)>> IN
    Only({(
        IF IsRaise(resp_json)
        THEN MOut("loop", <<>>, Append(char_jsons, CharJson("invalid_json", JStr(resp))),
                  CharJson("invalid_json", JStr(resp)), issued)
        ELSE Only({(
            IF IsRaise(reg_resp_json) THEN MOut("crashed", <<>>, char_jsons, reg_resp_json, issued)
            ELSE IF reg_resp_json # PyFalse
            THEN MOut("loop", <<>>, Append(char_jsons, CharJson("success", reg_resp_json)),
                      CharJson("success", reg_resp_json), issued)
            ELSE MOut("loop", <<>>,
                      Append(char_jsons,
                             CharJson("bad_structure",
                                      JStr(PyStr(regularise_charjson_after(resp_json))))),
                      CharJson("bad_structure",
                               JStr(PyStr(regularise_charjson_after(resp_json)))), issued)
            ) : reg_resp_json \in {D2M_regularise_charjson(resp_json)}})
        ) : resp_json \in {json_loads(ReplaceApostrophes(resp))}})

\* desc2matrix.main: the species data compiled after the loop, and the
\* document written
D2M_sp_list(char_jsons) ==
    [rowid \in 1..Len(char_jsons) |->
        SampleResult(Sample(rowid).spid, Sample(rowid).desc, char_jsons[rowid])]
D2M_outdict(char_jsons) ==
    [sys_prompt |-> sys_prompt, prompt |-> d2m_prompt,
     params |-> [temperature |-> 0, seed |-> 1, repeat_last_n |-> 0, num_predict |-> 2048,
                 num_ctx |-> 4096],
     mode |-> "desc2json", data |-> D2M_sp_list(char_jsons)]

\* one iteration of the loop of desc2matrix.desc2list2charjson: a first call
\* turns the description into a list, a second one the list into records,
\* parsed as in desc2charjson; outs pairs desc_lists with char_jsons
D2L_iteration(outs, desc, liststr, resp) ==
    LET issued == <<GenerateCall("D2L" \o "\n" \o desc, "D2L SYSTEM"),
                    GenerateCall("L2J" \o "\n" \o liststr, "L2J SYSTEM")>> IN
    Only({(
        IF parsed.pc = "crashed" THEN MOut("crashed", <<>>, outs, parsed.ret, issued)
        ELSE MOut("loop", <<>>, Append(outs, [list |-> liststr, json |-> parsed.ret]),
                  parsed.ret, issued)
        ) : parsed \in {D2M_iteration(<<>>, desc, resp)}})

\* desc2matrix.main, mode desc2list2json: the document written
D2L_outdict(outs) ==
    [d2l_sys_prompt |-> "D2L SYSTEM", d2l_prompt |-> "D2L",
     l2j_sys_prompt |-> "L2J SYSTEM", l2j_prompt |-> "L2J",
     params |-> [temperature |-> 0, seed |-> 1, repeat_last_n |-> 0, num_predict |-> 2048,
                 num_ctx |-> 4096],
     mode |-> "desc2list2json",
     data |-> [rowid \in 1..Len(outs) |->
                  [coreid |-> Sample(rowid).spid,
                   status |-> outs[rowid].json.status,
                   original_description |-> Sample(rowid).desc,
                   char_list |-> outs[rowid].list,
                   char_json |-> IF outs[rowid].json.status = "success"
                                 THEN outs[rowid].json.data ELSE PyNone,
                   failed_str |-> IF outs[rowid].json.status # "success"
                                  THEN outs[rowid].json.data ELSE PyNone]]]

---------------------------------------------------------------------------
(* desc2matrix_followup.py and desc2matrix_wcharlist.py *)

\* desc2matrix_followup.py: one iteration of the loop of desc2charjson, and
\* desc2charjson_single on the next description; the response is parsed as in
\* desc2matrix.py, the prompt has the description put in its placeholder
FUS_iteration(char_jsons, desc, resp) ==
    [D2M_iteration(char_jsons, desc, resp) EXCEPT
        !.calls = <<GenerateCall(Text(replace(init_prompt, "[DESCRIPTION]", desc)),
                                 sys_prompt)>>]

\* desc2matrix_followup.py main: the document written, after each sample
\* with --saveeachsp and once at the end without
FUS_outdict(char_jsons) ==
    [sys_prompt |-> sys_prompt, prompt |-> Text(init_prompt),
     params |-> [temperature |-> 0, seed |-> 1, repeat_last_n |-> 0,
                num_predict |-> 2048, num_ctx |-> 4096, top_k |-> PyNone, top_p |-> PyNone],
     mode |-> "desc2json", data |-> D2M_sp_list(char_jsons)]

\* desc2matrix_wcharlist.py main, one iteration of the loop:
\* desc2charjson_wchars, the characteristics joined with ', ', and the entry
\* appended to sp_list
WC_iteration(log, spid, desc, resp) ==
    LET issued == <<GenerateCall(Text(replace(replace(ext_prompt, "[DESCRIPTION]", desc),
                                              "[CHARACTER_LIST]", Join(ext_chars, ", "))),
                                 sys_prompt)>> IN
    Only({(
        IF parsed.pc = "crashed" THEN MOut("crashed", <<>>, log, parsed.ret, issued)
        ELSE MOut("loop", <<>>, Append(log, SampleResult(spid, desc, parsed.ret)),
                  parsed.ret, issued)
        ) : parsed \in {D2M_iteration(<<>>, desc, resp)}})

\* desc2matrix_wcharlist.py main: the document written at the end of an
\* iteration
WC_outdict(log) ==
    [sys_prompt |-> sys_prompt, prompt |-> Text(ext_prompt),
     params |-> [temperature |-> 0, seed |-> 1, repeat_last_n |-> 0,
                num_predict |-> 2048, num_ctx |-> 4096, top_k |-> PyNone, top_p |-> PyNone],
     mode |-> "desc2json_wcharlist", charlist |-> ext_chars, data |-> log]

---------------------------------------------------------------------------
(* The state machine *)

\* the responses the second backend call can give: it is only issued, and so
\* only answered, when the first response parsed to success
NoResponse == ""
InitialSucceeds(resp) ==
    Only({(
        ~IsRaise(c) /\ c.status = "success"
        ) : c \in {prompt2charjson(resp)}})
FollowupResponses(resp) ==
    IF InitialSucceeds(resp) THEN Responses \cup {BackendError} ELSE {NoResponse}
FollowupResponsesAll(resp) ==
    IF InitialSucceeds(resp) THEN AllResponses \cup {BackendError} ELSE {NoResponse}
LegacyInitialSucceeds(resp) ==
    Only({(
        ~IsRaise(c) /\ c.status = "success"
        ) : c \in {PD_parse(resp)}})
LegacyFollowupResponses(resp) ==
    IF LegacyInitialSucceeds(resp) THEN AllResponses ELSE {NoResponse}

\* the store_results argument: True (the default) or False
StoreChoices == {TRUE, FALSE}
\* the responses the calls with store_results=False are run against: one
\* that parses to success and one that does not
NoStoreResponses == {RTwo, RNotJson, RTabGood, NoResponse}
NoStoreLCResponses == {LCParsingError,
                       LCParsed(<<[characteristic |-> "leaf", value |-> "red"]>>)}
ResponsesFor(store_results, responses) ==
    IF store_results THEN responses ELSE responses \cap NoStoreResponses
LCResponsesFor(store_results) ==
    IF store_results THEN LCResponses ELSE NoStoreLCResponses

Variants == {"plain", "followup", "langchain", "tabscript", "extractor", "wcharlist_followup",
             "tab", "functions", "desc2matrix", "wcharlist_lc", "te_workers", "fte_workers",
             "desc2list2json", "followup_bulk", "followup_saveeachsp", "wcharlist"}

Init ==
    /\ variant \in Variants
    /\ charlist_history = <<>>
    /\ sp_chars = <<>>
    /\ calls = <<>>
    /\ last = [op |-> "init", store |-> TRUE, resps |-> <<>>, ret |-> PyNone, after |-> <<>>]
    /\ nsteps = 0
    /\ pc = CASE variant = "tabscript" -> "start"
              [] variant \in {"wcharlist_followup", "desc2matrix", "desc2list2json",
                              "followup_bulk", "followup_saveeachsp", "wcharlist"} -> "loop"
              [] OTHER -> "api"
    /\ outputfile = NoFile
    /\ backend \in Backends(variant)
    /\ jobs = IF variant \in {"te_workers", "fte_workers"}
              THEN [k \in 1..PoolSize |-> JobTodo] ELSE <<>>

\* the effect of a method call on the object
Apply(op, store_results, resps, out) ==
    /\ charlist_history' = out.hist
    /\ sp_chars' = out.log
    /\ calls' = out.calls
    /\ last' = [op |-> op, store |-> store_results, resps |-> resps, ret |-> out.ret,
                after |-> <<>>]
    /\ nsteps' = IF op = "step" /\ store_results THEN nsteps + 1 ELSE nsteps
    /\ UNCHANGED <<variant, pc, outputfile, backend, jobs>>

\* the effect of an interruption of a script; issued are the backend calls
\* the interrupted stretch had made
Interrupted(resps, hist, log, file, issued) ==
    /\ pc' = "interrupted"
    /\ charlist_history' = hist
    /\ sp_chars' = log
    /\ outputfile' = file
    /\ calls' = issued
    /\ last' = [op |-> "interrupt", store |-> TRUE, resps |-> resps,
                ret |-> Raise("KeyboardInterrupt"), after |-> <<>>]
    /\ UNCHANGED <<variant, nsteps, backend, jobs>>

\* the effect of a stretch of a script's main()
ApplyMain(op, resps, out, file) ==
    /\ charlist_history' = out.hist
    /\ sp_chars' = out.log
    /\ calls' = out.calls
    /\ last' = [op |-> op, store |-> TRUE, resps |-> resps, ret |-> out.ret, after |-> <<>>]
    /\ nsteps' = IF op = "step" THEN nsteps + 1 ELSE nsteps
    /\ outputfile' = file
    /\ pc' = out.pc
    /\ UNCHANGED <<variant, backend, jobs>>

ExtractInitChars ==
    /\ variant \in {"plain", "followup"}
    /\ \E store_results \in StoreChoices :
       \E resp \in ResponsesFor(store_results, SeedResponses) :
          \E out \in {TA_extract_init_chars(charlist_history, sp_chars, Sample(1).desc,
                                      store_results, resp)} :
                Apply("seed", store_results, <<resp>>, out)

AccumStep ==
    /\ variant \in {"plain", "tab"}
    /\ nsteps < MaxSteps
    /\ \E store_results \in StoreChoices :
       \E resp \in ResponsesFor(store_results, Responses \cup {BackendError}) :
          LET s == Sample(nsteps + 1) IN
          \E out \in {TA_accum_step(charlist_history, sp_chars, s.spid, s.desc, store_results, resp)} :
                Apply("step", store_results, <<resp>>, out)

FollowupAccumStep ==
    /\ variant = "followup"
    /\ nsteps < MaxSteps
    /\ \E store_results \in StoreChoices :
       \E resp \in ResponsesFor(store_results, Responses \cup {BackendError}) :
       \E f_resp \in ResponsesFor(store_results, FollowupResponses(resp)) :
          LET s == Sample(nsteps + 1) IN
          \E out \in {FTA_accum_step(charlist_history, sp_chars, s.spid, s.desc, store_results,
                               resp, f_resp)} :
                Apply("step", store_results, <<resp, f_resp>>, out)

LCExtractInitChars ==
    /\ variant = "langchain"
    /\ \E store_results \in StoreChoices :
       \E response \in LCResponsesFor(store_results) :
          \E out \in {LC_extract_init_chars(charlist_history, sp_chars, Sample(1).desc,
                                      store_results, response)} :
                Apply("seed", store_results, <<response>>, out)

LCAccumStep ==
    /\ variant = "langchain"
    /\ nsteps < MaxSteps
    /\ \E store_results \in StoreChoices :
       \E response \in LCResponsesFor(store_results) :
          LET s == Sample(nsteps + 1) IN
          \E out \in {LC_accum_step(charlist_history, sp_chars, s.spid, s.desc, store_results,
                              response)} :
                Apply("step", store_results, <<response>>, out)

FollowupExtStep ==
    /\ variant = "extractor"
    /\ nsteps < MaxSteps
    /\ \E store_results \in StoreChoices :
       \E resp \in ResponsesFor(store_results, AllResponses \cup {BackendError}) :
       \E f_resp \in ResponsesFor(store_results, FollowupResponsesAll(resp)) :
          LET s == Sample(nsteps + 1) IN
          \E out \in {FTE_ext_step(sp_chars, s.spid, s.desc, store_results, resp, f_resp)} :
                Apply("step", store_results, <<resp, f_resp>>, out)

GetSummary ==
    /\ variant \in {"plain", "tab", "followup", "langchain", "extractor"}
    /\ \E out \in {get_summary(variant, charlist_history, sp_chars)} :
          Apply("get_summary", FALSE, <<>>, out)

TabMainSeed ==
    /\ variant = "tabscript"
    /\ pc = "start"
    /\ \E resp \in TableResponses :
       \E out \in {TabMain_seed(resp)} : ApplyMain("seed", <<resp>>, out, outputfile)

TabMainIteration ==
    /\ variant = "tabscript"
    /\ pc = "loop"
    /\ Len(sp_chars) < Len(AllDescs)
    /\ \E resp \in AllResponses :
          LET rowid == Len(sp_chars)
              s == Sample(rowid + 1)
          IN  \E out \in {TabMain_iteration(charlist_history, sp_chars, rowid,
                                              s.spid, s.desc, resp)} :
                 ApplyMain("step", <<resp>>, out,
                           IF out.pc = "loop" THEN TabMain_outdict(out.hist, out.log)
                           ELSE outputfile)

\* the run is interrupted (KeyboardInterrupt, kill).  During the initial
\* tabulation: before the backend call, or with the request made; nothing is
\* stored and no file written.  In an iteration of the loop: before the
\* backend call; with the request made (answered or not) and nothing
\* appended; with the history appended to and the result not yet; with both
\* appended and the file of the previous iteration untouched; while
\* json.dump writes the file that open(..., 'w') has just truncated; with
\* the document written, on leaving the with block or at the header of the
\* for loop, after the last iteration too
TabMainInterrupt ==
    /\ variant = "tabscript"
    /\ \/ /\ pc = "start"
          /\ \/ Interrupted(<<>>, charlist_history, sp_chars, outputfile, <<>>)
             \/ \E resp \in TableResponses :
                \E out \in {TabMain_seed(resp)} :
                \E resps \in {<<>>, <<resp>>} :
                   Interrupted(resps, charlist_history, sp_chars, outputfile, out.calls)
       \/ /\ pc = "loop"
          /\ \/ Interrupted(<<>>, charlist_history, sp_chars, outputfile, <<>>)
             \/ /\ Len(sp_chars) < Len(AllDescs)
                /\ \E resp \in AllResponses :
                   LET rowid == Len(sp_chars)
                       s == Sample(rowid + 1)
                   IN  \E out \in {TabMain_iteration(charlist_history, sp_chars, rowid,
                                                       s.spid, s.desc, resp)} :
                          \/ \E resps \in {<<>>, <<resp>>} :
                                Interrupted(resps, charlist_history, sp_chars, outputfile,
                                            out.calls)
                          \/ /\ out.pc = "loop"
                             /\ \/ Interrupted(<<resp>>, out.hist, sp_chars, outputfile,
                                               out.calls)
                                \/ Interrupted(<<resp>>, out.hist, out.log, outputfile,
                                               out.calls)
                                \/ Interrupted(<<resp>>, out.hist, out.log, TornFile,
                                               out.calls)
                                \/ Interrupted(<<resp>>, out.hist, out.log,
                                               TabMain_outdict(out.hist, out.log),
                                               out.calls)

D2MIteration ==
    /\ variant = "desc2matrix"
    /\ pc = "loop"
    /\ Len(sp_chars) < Len(AllDescs)
    /\ \E resp \in AllResponses :
       \E out \in {D2M_iteration(sp_chars, Sample(Len(sp_chars) + 1).desc, resp)} :
          ApplyMain("step", <<resp>>, out, outputfile)

\* the list texts the first call of desc2list2charjson returns
ListResponses == {"habit: tree", "a list"}

D2LIteration ==
    /\ variant = "desc2list2json"
    /\ pc = "loop"
    /\ Len(sp_chars) < Len(AllDescs)
    /\ \E liststr \in ListResponses, resp \in AllResponses :
       \E out \in {D2L_iteration(sp_chars, Sample(Len(sp_chars) + 1).desc, liststr, resp)} :
          ApplyMain("step", <<liststr, resp>>, out, outputfile)

D2MWrite ==
    /\ variant \in {"desc2matrix", "desc2list2json"}
    /\ pc = "loop"
    /\ Len(sp_chars) = Len(AllDescs)
    /\ ApplyMain("write", <<>>, MOut("done", <<>>, sp_chars, PyNone, <<>>),
                 IF variant = "desc2matrix" THEN D2M_outdict(sp_chars)
                 ELSE D2L_outdict(sp_chars))

\* the run is interrupted: between two backend calls or after the loop with
\* the file not yet opened; in an iteration with a request made (answered or
\* not; in mode desc2list2json the first or both); after the loop while
\* json.dump writes the file, or with the document written, on leaving the
\* with block
D2MInterrupt ==
    /\ variant \in {"desc2matrix", "desc2list2json"}
    /\ pc = "loop"
    /\ \/ Interrupted(<<>>, charlist_history, sp_chars, outputfile, <<>>)
       \/ /\ variant = "desc2matrix"
          /\ Len(sp_chars) < Len(AllDescs)
          /\ \E resp \in AllResponses :
             \E out \in {D2M_iteration(sp_chars, Sample(Len(sp_chars) + 1).desc, resp)} :
             \E resps \in {<<>>, <<resp>>} :
                Interrupted(resps, charlist_history, sp_chars, outputfile, out.calls)
       \/ /\ variant = "desc2list2json"
          /\ Len(sp_chars) < Len(AllDescs)
          /\ \E liststr \in ListResponses, resp \in AllResponses :
             \E out \in {D2L_iteration(sp_chars, Sample(Len(sp_chars) + 1).desc,
                                        liststr, resp)} :
             \E made \in {1, 2} :
             \E resps \in IF made = 1 THEN {<<>>, <<liststr>>}
                           ELSE {<<liststr>>, <<liststr, resp>>} :
                Interrupted(resps, charlist_history, sp_chars, outputfile,
                            SubSeq(out.calls, 1, made))
       \/ /\ Len(sp_chars) = Len(AllDescs)
          /\ \E file \in {TornFile, IF variant = "desc2matrix" THEN D2M_outdict(sp_chars)
                                     ELSE D2L_outdict(sp_chars)} :
                Interrupted(<<>>, charlist_history, sp_chars, file, <<>>)

\* desc2matrix_followup.py: the next description is processed; with
\* --saveeachsp the document is written afterwards
FUSIteration ==
    /\ variant \in {"followup_bulk", "followup_saveeachsp"}
    /\ pc = "loop"
    /\ Len(sp_chars) < Len(AllDescs)
    /\ \E resp \in AllResponses :
       \E out \in {FUS_iteration(sp_chars, Sample(Len(sp_chars) + 1).desc, resp)} :
          ApplyMain("step", <<resp>>, out,
                    IF variant = "followup_saveeachsp" /\ out.pc = "loop"
                    THEN FUS_outdict(out.log) ELSE outputfile)

\* desc2matrix_followup.py without --saveeachsp: the document is written
\* once, after the loop
FUSWrite ==
    /\ variant = "followup_bulk"
    /\ pc = "loop"
    /\ Len(sp_chars) = Len(AllDescs)
    /\ ApplyMain("write", <<>>, MOut("done", <<>>, sp_chars, PyNone, <<>>),
                 FUS_outdict(sp_chars))

\* desc2matrix_followup.py is interrupted: before a backend call (in bulk
\* mode also after the loop, the file not yet opened); with the request made;
\* with --saveeachsp, with the entry appended and the file of the previous
\* iteration untouched; while json.dump writes the file; with the document
\* written, on leaving the with block or at the header of the for loop,
\* after the last write too
FUSInterrupt ==
    /\ variant \in {"followup_bulk", "followup_saveeachsp"}
    /\ pc = "loop"
    /\ \/ Interrupted(<<>>, charlist_history, sp_chars, outputfile, <<>>)
       \/ /\ Len(sp_chars) < Len(AllDescs)
          /\ \E resp \in AllResponses :
             \E out \in {FUS_iteration(sp_chars, Sample(Len(sp_chars) + 1).desc, resp)} :
                \/ \E resps \in {<<>>, <<resp>>} :
                      Interrupted(resps, charlist_history, sp_chars, outputfile, out.calls)
                \/ /\ variant = "followup_saveeachsp"
                   /\ out.pc = "loop"
                   /\ \E file \in {outputfile, TornFile, FUS_outdict(out.log)} :
                         Interrupted(<<resp>>, charlist_history, out.log, file, out.calls)
       \/ /\ variant = "followup_bulk"
          /\ Len(sp_chars) = Len(AllDescs)
          /\ \E file \in {TornFile, FUS_outdict(sp_chars)} :
                Interrupted(<<>>, charlist_history, sp_chars, file, <<>>)

\* desc2matrix_wcharlist.py: one iteration of the loop of main
WCIteration ==
    /\ variant = "wcharlist"
    /\ pc = "loop"
    /\ Len(sp_chars) < Len(AllDescs)
    /\ \E resp \in AllResponses :
          LET s == Sample(Len(sp_chars) + 1) IN
          \E out \in {WC_iteration(sp_chars, s.spid, s.desc, resp)} :
             ApplyMain("step", <<resp>>, out,
                       IF out.pc = "loop" THEN WC_outdict(out.log) ELSE outputfile)

WFMainIteration ==
    /\ variant = "wcharlist_followup"
    /\ pc = "loop"
    /\ Len(sp_chars) < Len(AllDescs)
    /\ \E resp \in AllResponses :
       \E f_resp \in LegacyFollowupResponses(resp) :
          LET s == Sample(Len(sp_chars) + 1) IN
          \E out \in {WFMain_iteration(sp_chars, s.spid, s.desc, resp, f_resp)} :
             ApplyMain("step", <<resp, f_resp>>, out,
                       IF out.pc = "loop" THEN WFMain_outdict(out.log) ELSE outputfile)

TabExtractInitChars ==
    /\ variant = "tab"
    /\ \E store_results \in StoreChoices :
       \E resp \in ResponsesFor(store_results, TableResponses) :
          \E out \in {Tab_extract_init_chars(charlist_history, sp_chars, TabSpids,
                                              [k \in 1..NumTab |-> Sample(k).desc],
                                              store_results, resp)} :
                Apply("seed", store_results, <<resp>>, out)

\* the effect of a call of a function that belongs to no object
ApplyCall(op, args, ret, after, issued) ==
    /\ last' = [op |-> op, store |-> FALSE, resps |-> args, ret |-> ret, after |-> after]
    /\ calls' = issued
    /\ UNCHANGED <<variant, charlist_history, sp_chars, nsteps, pc, outputfile, backend, jobs>>

\* the decoded values the regularisers are called with: what the responses
\* decode to, other JSON values, and what the previous call returned
JsonValues ==
    {json_loads(r) : r \in ParseResponses \ {RNotJson, RSingle}}
    \cup {TabGoodJson, JList(<<>>), JNum(5), PyNone, JStr("habit"),
          JList(<<JStr("habit")>>), JList(<<PyNone>>), JList(<<JList(<<JNum(1)>>)>>),
          JList(<<Char("habit", JList(<<JNum(1), JStr("tall")>>)), Char("leaf", PyNone),
                  Char("Height", JNum(5))>>)}
TableValues ==
    {TabGoodJson, TabMissingJson, TabExtraJson, TabWrongKeysJson, JNum(5),
     JList(<<JNum(1)>>), json_loads(RTwo),
     JList(<<TabRow("habit", <<>>)>>),
     JList(<<JDict(<<KV("characteristic", JStr("habit")), KV("values", JStr("tree"))>>)>>)}
Returned == IF last.op \in {"regularise_charjson", "regularise_table"} /\ IsList(last.ret)
            THEN {last.ret} ELSE {}

RegulariseCharjson ==
    /\ variant = "functions"
    /\ \E chars \in JsonValues \cup Returned :
          ApplyCall("regularise_charjson", <<chars>>, regularise_charjson(chars),
                    <<regularise_charjson_after(chars)>>, <<>>)

RegulariseTable ==
    /\ variant = "functions"
    /\ \E table \in TableValues \cup Returned :
          ApplyCall("regularise_table", <<table, TabSpids>>, regularise_table(table, TabSpids),
                    <<regularise_table_after(table, TabSpids)>>, <<>>)

ParseLlmResponse ==
    /\ variant = "functions"
    /\ \E resp \in ParseResponses :
          ApplyCall("parse_llm_response", <<resp>>,
                    parse_llm_response(resp, "regularise_charjson"), <<>>, <<>>)

LegacyDesc2charjson ==
    /\ variant = "functions"
    /\ \E resp \in ParseResponses :
       \E out \in {PD_desc2charjson(ext_prompt, Sample(1).desc, ext_chars, resp)} :
          ApplyCall("desc2charjson", <<resp>>, out.ret, <<>>, out.calls)

GetCharTable ==
    /\ variant = "functions"
    /\ \E resp \in TableResponses :
       \E out \in {PD_get_char_table(tab_prompt, TabSpids, [k \in 1..NumTab |-> Sample(k).desc],
                                      resp)} :
          ApplyCall("get_char_table", <<resp>>, out.ret, <<>>, out.calls)

\* the texts the word-set functions are called with
SpacingTexts ==
    {<<"t", "a", "l", "l", ".", " ", "L", "e", "a", "v", "e", "s">>,
     <<"t", "a", "l", "l", ".">>,
     <<"1", ".", "5", " ", "c", "m">>,
     <<"a", ".", " ", "5">>,
     <<"5", " ", ".", "a">>,
     <<"5", ".", " ", "a">>,
     <<"1", " ", "-", " ", "2">>,
     <<"t", "r", "e", "e", " ", ",", "t", "a", "l", "l">>,
     <<"l", "e", "a", "f", "(", "r", "e", "d", ")", ":", "5", ";">>,
     <<"t", "r", "e", "e", " ", "t", "a", "l", "l">>,
     <<>>}
OmissionDescs ==
    {<<"t", "r", "e", "e", " ", "t", "a", "l", "l">>, <<"5">>, <<"1", ".", "5">>, <<>>}
OmissionRecords ==
    {JList(<<>>), JList(<<Char("5", JStr("5"))>>), json_loads(ROne),
     JList(<<Char("habit", JStr("tree")), Char("height", JStr("tall"))>>)}

PunctuationSpacing ==
    /\ variant = "functions"
    /\ \E script \in {"desc2matrix_followup", "desc2matrix_qc"}, descstr \in SpacingTexts :
          ApplyCall("punctuation_spacing", <<script, descstr>>,
                    IF script = "desc2matrix_qc" THEN QC_spacing(descstr)
                    ELSE FU_spacing(descstr),
                    <<>>, <<>>)

GetOmissions ==
    /\ variant = "functions"
    /\ \E desc \in OmissionDescs, char_json \in OmissionRecords :
          ApplyCall("get_omissions", <<desc, char_json>>, FU_get_omissions(desc, char_json),
                    <<>>, <<>>)

\* the entries of an output file desc2matrix_qc.py reads
QCDescs ==
    {<<"t", "r", "e", "e", " ", "t", "a", "l", "l">>,
     <<"T", "r", "e", "e", "s", " ", "t", "a", "l", "l", ",", "L", "e", "a", "v", "e", "s",
       " ", "r", "e", "d">>,
     <<"t", "h", "e", " ", "l", "e", "a", "f", " ", "i", "s", " ", "1", " ", "-", " ", "5">>,
     <<"t", "h", "e">>,
     <<>>}
QCEntries ==
    {[coreid |-> "sp1", status |-> "success", original_description |-> desc, char_json |-> cj] :
         desc \in QCDescs,
         cj \in OmissionRecords \cup {JList(<<Char("leaf", JStr("red")), Char("tree", JStr("5"))>>)}}
    \cup {[coreid |-> "sp1", status |-> "invalid_json", original_description |-> desc,
           failed_str |-> f] : desc \in QCDescs, f \in {<<"t", "a", "l", "l", " ", "r", "e", "d">>}}
    \cup {[coreid |-> "sp1", status |-> "invalid_json", original_description |-> desc] :
             desc \in QCDescs}

QCRow ==
    /\ variant = "functions"
    /\ \E desc_dat \in QCEntries :
          ApplyCall("qc_row", <<desc_dat>>, QC_row(desc_dat), <<>>, <<>>)

\* LCTraitExtractor.ext_step, called for the samples in any order
LCExtStep ==
    /\ variant = "wcharlist_lc"
    /\ nsteps < MaxSteps
    /\ \E k \in 1..MaxSteps, store_results \in StoreChoices :
       \E response \in LCResponsesFor(store_results) :
       \E out \in {LC_ext_step(sp_chars, Sample(k).spid, Sample(k).desc, store_results,
                                response)} :
          Apply("step", store_results, <<response>>, out)

\* a worker calls ext_step for a sample nobody has taken and gets as far as
\* client.generate: the prompt is built and sent
ExtStepCall ==
    /\ variant \in {"te_workers", "fte_workers"}
    /\ Cardinality({k \in 1..PoolSize : jobs[k].at \in {"generate", "chat"}}) < MaxWorkers
    /\ \E k \in 1..PoolSize :
          /\ jobs[k] = JobTodo
          /\ \E out \in {Pool_ext_step(variant, sp_chars, k, NoResponse, NoResponse)} :
                /\ jobs' = [jobs EXCEPT ![k] = JobGenerating(out.calls[1].prompt)]
                /\ calls' = <<out.calls[1]>>
                /\ last' = [op |-> "call", store |-> TRUE, resps |-> <<>>, ret |-> PyNone,
                            after |-> <<>>]
    /\ UNCHANGED <<variant, charlist_history, sp_chars, nsteps, pc, outputfile, backend>>

\* client.generate answers one of the workers.  The response is parsed; a
\* FollowupTraitExtractor whose initial result is a success goes on to
\* client.chat, otherwise the call runs to its end and the result is
\* appended to self.sp_chars.  What lies between the backend's answer and
\* the append works on the local variables of the call only.
ExtStepReturn ==
    /\ variant \in {"te_workers", "fte_workers"}
    /\ \E k \in 1..PoolSize :
          /\ jobs[k].at = "generate"
          /\ \E resp \in {generate(backend, jobs[k].prompt)} :
             \E out \in {Pool_ext_step(variant, sp_chars, k, resp, NoResponse)} :
                IF Len(out.calls) = 2
                THEN /\ jobs' = [jobs EXCEPT ![k] = JobChatting(resp, out.calls[2].messages)]
                     /\ calls' = <<out.calls[2]>>
                     /\ last' = [op |-> "call", store |-> TRUE, resps |-> <<resp>>,
                                 ret |-> PyNone, after |-> <<>>]
                     /\ UNCHANGED sp_chars
                ELSE /\ sp_chars' = out.log
                     /\ jobs' = [jobs EXCEPT ![k] = IF IsRaise(out.ret) THEN JobRaised
                                                    ELSE JobReturned]
                     /\ calls' = <<>>
                     /\ last' = [op |-> "step", store |-> TRUE, resps |-> <<resp>>,
                                 ret |-> out.ret, after |-> <<>>]
    /\ UNCHANGED <<variant, charlist_history, nsteps, pc, outputfile, backend>>

\* client.chat answers one of the workers, whose ext_step call runs to its
\* end: the follow-up response is parsed and the result appended
ExtStepFollowupReturn ==
    /\ variant = "fte_workers"
    /\ \E k \in 1..PoolSize :
          /\ jobs[k].at = "chat"
          /\ \E f_resp \in {chat(backend, jobs[k].messages)} :
             \E out \in {Pool_ext_step(variant, sp_chars, k, jobs[k].resp, f_resp)} :
                /\ sp_chars' = out.log
                /\ jobs' = [jobs EXCEPT ![k] = IF IsRaise(out.ret) THEN JobRaised
                                               ELSE JobReturned]
                /\ calls' = <<>>
                /\ last' = [op |-> "step", store |-> TRUE, resps |-> <<jobs[k].resp, f_resp>>,
                            ret |-> out.ret, after |-> <<>>]
    /\ UNCHANGED <<variant, charlist_history, nsteps, pc, outputfile, backend>>

Next ==
    \/ TabExtractInitChars
    \/ LCExtStep
    \/ ExtStepCall
    \/ ExtStepReturn
    \/ ExtStepFollowupReturn
    \/ RegulariseCharjson
    \/ RegulariseTable
    \/ ParseLlmResponse
    \/ LegacyDesc2charjson
    \/ GetCharTable
    \/ PunctuationSpacing
    \/ GetOmissions
    \/ QCRow
    \/ ExtractInitChars
    \/ AccumStep
    \/ FollowupAccumStep
    \/ LCExtractInitChars
    \/ LCAccumStep
    \/ FollowupExtStep
    \/ GetSummary
    \/ TabMainSeed
    \/ TabMainIteration
    \/ TabMainInterrupt
    \/ WFMainIteration
    \/ D2MIteration
    \/ D2MWrite
    \/ D2MInterrupt
    \/ D2LIteration
    \/ FUSIteration
    \/ FUSWrite
    \/ FUSInterrupt
    \/ WCIteration

Spec == Init /\ [][Next]_vars

---------------------------------------------------------------------------
(* Properties *)

Accumulators == {"plain", "followup", "langchain"}
GrowingVariants == Accumulators \cup {"tabscript"}

\* the most recent operation was a step that returned a char_json
StepReturned == last.op = "step" /\ ~IsRaise(last.ret)

\* C1: in every accumulator variant (plain, follow-up, LangChain, the
\* desc2matrix_accum_tab loop) no entry of charlist_history is shorter than
\* the entry before it, whatever the outcomes of the steps were.
C1_LengthNonDecreasing ==
    variant \in GrowingVariants =>
        \A k \in 1..(Len(charlist_history) - 1) :
            Len(charlist_history[k + 1]) >= Len(charlist_history[k])

\* a step that succeeded with fewer records than the list it was given,
\* after an earlier step had made the list grow
C1_Witness ==
    /\ variant \in GrowingVariants
    /\ StepReturned
    /\ last.ret.status = "success"
    /\ Len(charlist_history) = 3
    /\ Len(charlist_history[2]) > Len(charlist_history[1])
    /\ Len(last.ret.data.list) < Len(charlist_history[3])

\* C2: a storing step that returns appends the names of the returned records, in
\* response order, when its final status is success and there are more
\* records than names in the previous entry; in every other case it appends
\* an entry equal to the previous entry.
C2_CommitIffStrictlyLonger ==
    [][(variant \in GrowingVariants /\ last'.op = "step" /\ last'.store
            /\ ~IsRaise(last'.ret)) =>
          LET prev == charlist_history[Len(charlist_history)]
              r == last'.ret
              longer == r.status = "success" /\ Len(r.data.list) > Len(prev)
              names == [i \in 1..Len(r.data.list) |->
                           Get(r.data.list[i], "characteristic").str]
          IN  charlist_history' = Append(charlist_history, IF longer THEN names ELSE prev)
      ]_vars

\* a successful step with as many records as the previous entry has names,
\* under different names: the previous entry was appended again
C2_Witness ==
    /\ variant \in GrowingVariants
    /\ StepReturned
    /\ last.ret.status = "success"
    /\ Len(charlist_history) >= 2
    /\ Len(last.ret.data.list) = Len(charlist_history[Len(charlist_history) - 1])
    /\ Names(last.ret.data) # charlist_history[Len(charlist_history) - 1]
    /\ charlist_history[Len(charlist_history)] = charlist_history[Len(charlist_history) - 1]

\* C3: every accum_step with store_results=True on a seeded accumulator
\* appends exactly one entry to charlist_history and exactly one SampleResult
\* to sp_chars, whatever the response was.
C3_OneEntryPerStoredStep ==
    [][(variant \in Accumulators /\ charlist_history # <<>>
            /\ last'.op = "step" /\ last'.store) =>
          /\ Len(charlist_history') = Len(charlist_history) + 1
          /\ Len(sp_chars') = Len(sp_chars) + 1
      ]_vars

\* C4: accum_step on an accumulator whose charlist_history is empty raises
\* the precondition error, issues no backend call and leaves
\* charlist_history and sp_chars as they were (plain, follow-up, LangChain).
C4_StepBeforeSeedRaises ==
    [][(variant \in Accumulators /\ charlist_history = <<>> /\ last'.op = "step") =>
          /\ last'.ret = Raise("Exception")
          /\ calls' = <<>>
          /\ charlist_history' = charlist_history
          /\ sp_chars' = sp_chars
      ]_vars

\* accum_step was called on an accumulator that was never seeded
C4_Witness ==
    /\ variant \in Accumulators
    /\ last.op = "step"
    /\ charlist_history = <<>>
    /\ IsRaise(last.ret)

\* C5: charlist_history only grows by appending: every entry stays at its
\* index with its content across every call (a second extract_init_chars
\* included), and Len(charlist_history) = Len(sp_chars) + 1 once seeded.
C5_HistoryAppendOnly ==
    [][(variant \in Accumulators) =>
          /\ \A k \in 1..Len(charlist_history) :
                /\ k <= Len(charlist_history')
                /\ charlist_history'[k] = charlist_history[k]
          /\ (charlist_history' # <<>> =>
                 Len(charlist_history') = Len(sp_chars') + 1)
      ]_vars

\* the most recent operation was a seed that returned a failure status
SeedFailed == last.op = "seed" /\ last.store /\ ~IsRaise(last.ret) /\ last.ret.status # "success"

\* C6: a seed that returns a failure status (invalid_json, bad_structure)
\* leaves charlist_history = [[]]; the accum_step called next does not raise
\* the precondition error and sends a prompt with an empty characteristic list.
C6_FailedSeedStillReady ==
    [][(variant \in Accumulators) =>
          /\ SeedFailed' => charlist_history' = << <<>> >>
          /\ (SeedFailed /\ last'.op = "step") =>
                /\ last'.ret # Raise("Exception")
                /\ Len(calls') >= 1
                /\ LET desc == Sample(nsteps + 1).desc IN
                   IF variant = "langchain"
                   THEN calls'[1].system = Text(replace(lc_accum_prompt, "[CHARACTER_LIST]", ""))
                   ELSE calls'[1].prompt =
                            Text(replace(replace(accum_prompt, "[DESCRIPTION]", desc),
                                         "[CHARACTER_LIST]", ""))
      ]_vars

\* a step that succeeded right after a failed seed
C6_Witness ==
    /\ variant \in Accumulators
    /\ StepReturned
    /\ last.ret.status = "success"
    /\ Len(charlist_history) = 2
    /\ charlist_history[1] = <<>>
    /\ charlist_history[2] # <<>>

\* the char_json of the initial call of the most recent follow-up step
InitialResult ==
    IF variant = "wcharlist_followup" THEN PD_parse(last.resps[1])
    ELSE prompt2charjson(last.resps[1])
InitialFailed ==
    /\ last.op = "step"
    /\ last.ret # Raise("Exception")
    /\ ~IsRaise(InitialResult)
    /\ InitialResult.status \in {"invalid_json", "bad_structure"}
InitialSucceeded ==
    /\ last.op = "step"
    /\ last.ret # Raise("Exception")
    /\ ~IsRaise(InitialResult)
    /\ InitialResult.status = "success"

\* C7: in follow-up mode (FollowupTraitAccumulator.accum_step,
\* process_descs.desc2charjson_followup), when the initial result's status is
\* invalid_json or bad_structure no chat call is issued, and the result
\* returned and (by a storing call) stored is the initial result, its status
\* unchanged.
C7_NoFollowupAfterInitialFailure ==
    (variant \in {"followup", "wcharlist_followup"} /\ InitialFailed) =>
        /\ \A i \in 1..Len(calls) : calls[i].api # "chat"
        /\ last.ret = InitialResult
        /\ last.store =>
              /\ sp_chars # <<>>
              /\ sp_chars[Len(sp_chars)].status = InitialResult.status
              /\ sp_chars[Len(sp_chars)].failed_str = InitialResult.data

\* a follow-up accumulator step whose initial response was badly structured
C7_Witness ==
    /\ variant = "followup"
    /\ InitialFailed
    /\ last.ret.status = "bad_structure"

\* C8: a follow-up step (FollowupTraitAccumulator.accum_step,
\* FollowupTraitExtractor.ext_step) past the precondition check issues the
\* generate call and then the chat call when the initial response
\* regularises to success, the generate call alone otherwise, and never
\* more than two calls.
C8_TwoCallsOnSuccessOneOtherwise ==
    (variant \in {"followup", "extractor"} /\ last.op = "step"
        /\ last.ret # Raise("Exception")) =>
        /\ Len(calls) <= 2
        /\ IF InitialSucceeded
           THEN Len(calls) = 2 /\ calls[1].api = "generate" /\ calls[2].api = "chat"
           ELSE Len(calls) = 1 /\ calls[1].api = "generate"

\* a follow-up accumulator step that went through both calls
C8_Witness ==
    /\ variant = "followup"
    /\ InitialSucceeded
    /\ StepReturned
    /\ Len(calls) = 2

\* the char_json that the follow-up response regularises to
FollowupResult == messages2charjson(last.resps[2])

\* C9: in FollowupTraitAccumulator.accum_step and
\* FollowupTraitExtractor.ext_step the final status is bad_structure_followup
\* (invalid_json_followup) exactly when the initial response regularised to
\* success and the follow-up response to bad_structure (invalid_json); an
\* initial failure keeps its status and a successful follow-up gives success.
C9_FollowupSuffixIffFollowupFailed ==
    (variant \in {"followup", "extractor"} /\ StepReturned) =>
        /\ \A st \in {"bad_structure", "invalid_json"} :
              last.ret.status = st \o "_followup"
                  <=> (InitialSucceeded /\ FollowupResult.status = st)
        /\ InitialFailed => last.ret.status = InitialResult.status
        /\ (InitialSucceeded /\ FollowupResult.status = "success")
              => last.ret.status = "success"

\* an extractor step whose follow-up response was badly structured
C9_Witness ==
    /\ variant = "extractor"
    /\ StepReturned
    /\ last.ret.status = "bad_structure_followup"

\* the value the follow-up response of the legacy function decodes to
LegacyFollowupJson == json_loads(ReplaceApostrophes(last.resps[2]))
\* it is not an array, or one of its elements has other keys than
\* characteristic and value
StructurallyBad(json) ==
    \/ ~IsList(json)
    \/ \E i \in 1..Len(json.list) :
          IsDict(json.list[i]) /\ Keys(json.list[i]) # {"characteristic", "value"}

\* C10: process_descs.desc2charjson_followup, when the initial call succeeded
\* and the follow-up response decodes as JSON but is structurally bad,
\* returns status bad_structure_followup with the stringified decoded value.
C10_LegacyFollowupBadStructure ==
    (variant = "wcharlist_followup" /\ InitialSucceeded
        /\ ~IsRaise(LegacyFollowupJson) /\ StructurallyBad(LegacyFollowupJson)) =>
        /\ ~IsRaise(last.ret)
        /\ last.ret.status = "bad_structure_followup"
        /\ last.ret.data = JStr(PyStr(LegacyFollowupJson))

\* C11: when a storing follow-up step (FollowupTraitAccumulator.accum_step,
\* FollowupTraitExtractor.ext_step) has issued the chat call and returns, the
\* SampleResult it stores and the charlist entry it appends come from the
\* follow-up response alone: after a failed follow-up the stored char_json is
\* None, failed_str is the follow-up's text, and the appended charlist entry
\* equals the previous one, however many records the initial response had.
C11_StoredFromFollowupOnly ==
    [][(variant \in {"followup", "extractor"} /\ last'.op = "step" /\ last'.store
            /\ ~IsRaise(last'.ret)
            /\ \E i \in 1..Len(calls') : calls'[i].api = "chat") =>
          LET f == messages2charjson(last'.resps[2])
              s == Sample(nsteps + 1)
              ok == f.status = "success"
              entry == [coreid |-> s.spid,
                        status |-> IF ok THEN "success" ELSE f.status \o "_followup",
                        original_description |-> s.desc,
                        char_json |-> IF ok THEN f.data ELSE PyNone,
                        failed_str |-> IF ok THEN PyNone ELSE f.data]
          IN  /\ sp_chars' = Append(sp_chars, entry)
              /\ (~ok) => entry.failed_str \in
                              {JStr(last'.resps[2]), JStr(PyStr(json_loads(last'.resps[2])))}
              /\ (variant = "followup") =>
                    LET prev == charlist_history[Len(charlist_history)] IN
                    charlist_history' =
                        Append(charlist_history,
                               IF ok /\ Len(f.data.list) > Len(prev)
                               THEN [i \in 1..Len(f.data.list) |->
                                        Get(f.data.list[i], "characteristic").str]
                               ELSE prev)
      ]_vars

\* a follow-up accumulator step whose initial response had more records than
\* the current list has names and whose follow-up response was not JSON
C11_Witness ==
    /\ variant = "followup"
    /\ InitialSucceeded
    /\ StepReturned
    /\ last.ret.status = "invalid_json_followup"
    /\ Len(charlist_history) >= 2
    /\ Len(InitialResult.data.list) > Len(charlist_history[Len(charlist_history) - 1])
    /\ charlist_history[Len(charlist_history)] = charlist_history[Len(charlist_history) - 1]
    /\ sp_chars[Len(sp_chars)].char_json = PyNone
    /\ sp_chars[Len(sp_chars)].failed_str = JStr(last.resps[2])

\* the most recent operation was a call of one of the parsing functions
ParsingCall == variant = "functions"
                 /\ last.op \in {"parse_llm_response", "desc2charjson", "get_char_table"}

\* C12: when the raw response is not valid JSON, parse_llm_response
\* and the legacy desc2charjson and get_char_table return status invalid_json
\* with the raw response as data, and do not raise.
C12_InvalidJsonKeepsRawText ==
    (ParsingCall /\ IsRaise(json_loads(last.resps[1]))) =>
        last.ret = CharJson("invalid_json", JStr(last.resps[1]))

\* the decoded value is not an array, or one of its elements is not an
\* object with exactly the keys characteristic and value
NotRecordList(json) ==
    \/ ~IsList(json)
    \/ \E i \in 1..Len(json.list) :
          \/ ~IsDict(json.list[i])
          \/ Keys(json.list[i]) # {"characteristic", "value"}

\* C13: for every decoded value that is not an array, or has an element whose
\* key set is not {characteristic, value} (elements that are not objects
\* included), regularise_charjson returns None and parse_llm_response returns
\* status bad_structure with the stringified decoded value; neither raises.
C13_WrongShapeIsBadStructure ==
    /\ (variant = "functions" /\ last.op = "regularise_charjson"
            /\ NotRecordList(last.resps[1])) => last.ret = PyNone
    /\ (variant = "functions" /\ last.op = "parse_llm_response"
            /\ ~IsRaise(json_loads(last.resps[1]))
            /\ NotRecordList(json_loads(last.resps[1]))) =>
           last.ret = CharJson("bad_structure", JStr(PyStr(json_loads(last.resps[1]))))

\* a decoded table with a row whose keys are not characteristic and values,
\* or whose values are not keyed by exactly the sample ids
BadTable(json, spids) ==
    /\ IsList(json)
    /\ \E i \in 1..Len(json.list) :
          LET row == json.list[i] IN
          /\ IsDict(row)
          /\ \/ Keys(row) # {"characteristic", "values"}
             \/ /\ IsDict(Get(row, "values"))
                /\ Keys(Get(row, "values")) # {spids[j] : j \in 1..Len(spids)}

\* C14: a decoded table with a row whose key set is not {characteristic,
\* values}, or whose values lack a tabulated sample id or have another one,
\* is classified bad_structure as a whole (regularise_table returns None,
\* get_char_table returns status bad_structure), never success.
C14_BadTableIsBadStructure ==
    /\ (variant = "functions" /\ last.op = "regularise_table"
            /\ BadTable(last.resps[1], last.resps[2])) => last.ret = PyNone
    /\ (variant = "functions" /\ last.op = "get_char_table"
            /\ ~IsRaise(json_loads(ReplaceApostrophes(last.resps[1])))
            /\ BadTable(json_loads(ReplaceApostrophes(last.resps[1])), TabSpids)) =>
           /\ ~IsRaise(last.ret)
           /\ last.ret.status = "bad_structure"

\* a decoded table every row of which has the keys characteristic and values
\* and values keyed by exactly the sample ids
WellFormedTable(json, spids) ==
    /\ IsList(json)
    /\ \A i \in 1..Len(json.list) :
          LET row == json.list[i] IN
          /\ IsDict(row)
          /\ Keys(row) = {"characteristic", "values"}
          /\ IsDict(Get(row, "values"))
          /\ Keys(Get(row, "values")) = {spids[j] : j \in 1..Len(spids)}

\* C15: TabTraitAccumulator.extract_init_chars, given a response that is a
\* well-formed table over the given sample ids (NA allowed as a value),
\* returns status success and leaves charlist_history with the single entry
\* of the rows' characteristic names in order.
C15_TabSeedSucceeds ==
    (variant = "tab" /\ last.op = "seed" /\ ~IsRaise(json_loads(last.resps[1]))
        /\ WellFormedTable(json_loads(last.resps[1]), TabSpids)) =>
        /\ ~IsRaise(last.ret)
        /\ last.ret.status = "success"
        /\ charlist_history =
              << [i \in 1..Len(json_loads(last.resps[1]).list) |->
                     Get(json_loads(last.resps[1]).list[i], "characteristic").str] >>

\* C16: regularise_charjson called on what regularise_charjson returned
\* returns the same record list again.
C16_RegulariseIdempotent ==
    [][(variant = "functions" /\ last.op = "regularise_charjson" /\ IsList(last.ret)
            /\ last'.op = "regularise_charjson" /\ last'.resps[1] = last.ret) =>
          last'.ret = last.ret
      ]_vars

\* regularise_charjson was called on the result of an earlier call whose
\* input had a list as a value, and returned its argument
C16_Witness ==
    /\ variant = "functions"
    /\ last.op = "regularise_charjson"
    /\ IsList(last.ret)
    /\ last.ret = last.resps[1]
    /\ \E i \in 1..Len(last.ret.list) :
          Get(last.ret.list[i], "value") = JStr("[1, 'tall']")

\* the variants whose stored records come from regularise_charjson and
\* whose results have status success only with a record list as data
FlatVariants == {"plain", "followup", "extractor", "tab", "tabscript"}

\* C17: a successful regularise_charjson returns, in input order, exactly the
\* input elements whose value is not null, each with its value as a string;
\* no record of a stored successful SampleResult has a null value.
C17_NonNullInOrderAsStrings ==
    /\ (variant = "functions" /\ last.op = "regularise_charjson" /\ IsList(last.ret)) =>
          LET kept == SelectSeq(last.resps[1].list, LAMBDA c : Get(c, "value") # PyNone)
              out == last.ret.list
          IN  /\ Len(out) = Len(kept)
              /\ \A i \in 1..Len(kept) :
                    /\ Get(out[i], "characteristic") = Get(kept[i], "characteristic")
                    /\ IsStr(Get(out[i], "value"))
                    /\ Get(out[i], "value").str = PyStr(Get(kept[i], "value"))
    /\ (variant \in FlatVariants) =>
          \A k \in 1..Len(sp_chars) :
             sp_chars[k].status = "success" =>
                \A i \in 1..Len(sp_chars[k].char_json.list) :
                   IsStr(Get(sp_chars[k].char_json.list[i], "value"))

\* regularise_charjson was given three records, one with a null value and
\* one with a number, and returned two
C17_Witness ==
    /\ variant = "functions"
    /\ last.op = "regularise_charjson"
    /\ IsList(last.ret)
    /\ Len(last.resps[1].list) = 3
    /\ Get(last.resps[1].list[2], "value") = PyNone
    /\ Get(last.resps[1].list[3], "value") = JNum(5)
    /\ Len(last.ret.list) = 2
    /\ Get(last.ret.list[2], "value") = JStr("5")

\* name.lower() of the characteristic names of the model
Lower(name) ==
    CASE name = "Habit" -> "habit"
      [] name = "Height" -> "height"
      [] OTHER -> name
AllLowercase(names) == \A i \in 1..Len(names) : names[i] = Lower(names[i])

\* C18: every characteristic name is lowercase in every record list
\* regularise_charjson returns, in every stored successful SampleResult and
\* in every charlist_history entry.
C18_NamesLowercase ==
    /\ (variant = "functions" /\ last.op = "regularise_charjson" /\ IsList(last.ret)) =>
          AllLowercase(Names(last.ret))
    /\ (variant \in FlatVariants) =>
          /\ \A k \in 1..Len(charlist_history) : AllLowercase(charlist_history[k])
          /\ \A k \in 1..Len(sp_chars) :
                sp_chars[k].status = "success" => AllLowercase(Names(sp_chars[k].char_json))

\* C19: a call of regularise_charjson or regularise_table leaves the list it
\* was given, and every element of it, as they were, whether it returns a
\* record list or reports a bad structure.
C19_RegulariserLeavesInput ==
    (variant = "functions" /\ last.op \in {"regularise_charjson", "regularise_table"}) =>
        last.after[1] = last.resps[1]

\* C20: in every SampleResult of the result log exactly one of char_json and
\* failed_str is populated: char_json is not None exactly when the status is
\* success, and failed_str is not None exactly when it is not (plain,
\* follow-up and LangChain accumulators, extractors).
C20_RecordsXorRawFailure ==
    (variant \in {"plain", "followup", "langchain", "extractor"}) =>
        \A k \in 1..Len(sp_chars) :
           LET entry == sp_chars[k]
               raw == IF "failed_str" \in DOMAIN entry THEN entry.failed_str ELSE PyNone
           IN  /\ (entry.char_json # PyNone) <=> (entry.status = "success")
               /\ (raw # PyNone) <=> (entry.status # "success")

\* a backend call of the most recent operation raised
BackendRaised ==
    \E i \in 1..Len(last.resps) :
        IF variant = "langchain" THEN last.resps[i] = LCException
        ELSE last.resps[i] = BackendError

\* C23: when a backend call raises during a step (the follow-up call after a
\* successful first call included), the step raises to its caller and leaves
\* charlist_history and sp_chars as they were, in every accumulator and
\* extractor, the LangChain ones included.
C23_BackendFailurePropagates ==
    [][(variant \in {"plain", "followup", "langchain", "extractor", "tab"}
            /\ last'.op = "step" /\ BackendRaised') =>
          /\ IsRaise(last'.ret)
          /\ charlist_history' = charlist_history
          /\ sp_chars' = sp_chars
      ]_vars

\* the five statuses of the status enumeration, and the two follow-up ones
Statuses ==
    {"success", "bad_structure", "invalid_json", "bad_structure_followup",
     "invalid_json_followup"}
FollowupStatuses == {"bad_structure_followup", "invalid_json_followup"}

\* the statuses of the result the most recent operation returned and of the
\* results in the log
StatusesSeen ==
    (IF DOMAIN last.ret = {"status", "data"} THEN {last.ret.status} ELSE {})
        \cup {sp_chars[k].status : k \in 1..Len(sp_chars)}

\* C21: the status of every result returned or stored by any accumulator or
\* extractor is one of success, bad_structure, invalid_json,
\* bad_structure_followup, invalid_json_followup, and the two _followup
\* statuses occur only in the follow-up variants.
C21_StatusClosed ==
    (variant \in {"plain", "followup", "langchain", "extractor", "tab", "wcharlist_lc",
                  "te_workers", "fte_workers"}) =>
        /\ StatusesSeen \subseteq Statuses
        /\ (variant \notin {"followup", "extractor", "fte_workers"}) =>
               StatusesSeen \cap FollowupStatuses = {}

\* C22: a malformed or wrong-shaped backend response at the seeding call or
\* at any step never aborts the run: the operation returns, and a storing
\* step appends exactly one SampleResult, for its sample, after the ones
\* already in the log (so every sample has one result, in input order).
C22_RecoverableNeverAborts ==
    [][(/\ variant \in {"plain", "followup", "extractor", "tab", "tabscript"}
        /\ last'.op \in {"seed", "step"}
        /\ ~BackendRaised'
        /\ (last'.op = "step" /\ variant \in {"plain", "followup", "tab"})
               => charlist_history # <<>>) =>
          /\ ~IsRaise(last'.ret)
          /\ (last'.op = "step" /\ last'.store) =>
                /\ Len(sp_chars') = Len(sp_chars) + 1
                /\ SubSeq(sp_chars', 1, Len(sp_chars)) = sp_chars
                /\ sp_chars'[Len(sp_chars')].coreid = Sample(nsteps + 1).spid
      ]_vars

\* C25: get_summary is a pure read: called in any state it leaves
\* charlist_history and the result log as they were (the prompts and the
\* parameters are fixed at construction), and a call that directly follows
\* another returns an equal summary.
C25_GetSummaryPureRead ==
    [][(last'.op = "get_summary") =>
          /\ charlist_history' = charlist_history
          /\ sp_chars' = sp_chars
          /\ (last.op = "get_summary") => last'.ret = last.ret
      ]_vars

\* a summary taken after a step that grew the history and stored a result
C25_Witness ==
    /\ last.op = "get_summary"
    /\ Len(charlist_history) >= 2
    /\ Len(sp_chars) >= 1
    /\ last.ret.data = sp_chars
    /\ last.ret.charlist_history = charlist_history

\* the results of the samples whose iteration a script has completed
Completed ==
    IF variant \in {"desc2matrix", "followup_bulk", "followup_saveeachsp"}
    THEN D2M_sp_list(SubSeq(sp_chars, 1, nsteps))
    ELSE SubSeq(sp_chars, 1, nsteps)

\* C24: every run script persists the full output after each processed
\* sample: once a sample is completed, and also when the run is interrupted
\* afterwards (during a backend call or during a file write), the output
\* file is a document holding the results of all completed samples.
C24_OutputSurvivesInterruption ==
    (variant \in {"tabscript", "desc2matrix", "followup_bulk", "followup_saveeachsp"}
            /\ pc \in {"loop", "interrupted", "done"} /\ nsteps >= 1) =>
        /\ IsDocument(outputfile)
        /\ Len(outputfile.data) >= nsteps
        /\ SubSeq(outputfile.data, 1, nsteps) = Completed

\* the length series of a summary or a document matches its history
LenHistoryMatches(outdict) ==
    /\ Len(outdict.charlist_len_history) = Len(outdict.charlist_history)
    /\ \A i \in 1..Len(outdict.charlist_history) :
          outdict.charlist_len_history[i] = Len(outdict.charlist_history[i])

\* C26: in every summary get_summary returns, charlist_len_history has the
\* length of charlist_history and its i-th element is the length of the i-th
\* entry; the same holds of the document the tab script has written, after
\* every iteration.
C26_LenHistoryMatchesHistory ==
    /\ (variant \in {"plain", "tab", "followup", "langchain"} /\ last.op = "get_summary")
          => LenHistoryMatches(last.ret)
    /\ (variant = "tabscript" /\ IsDocument(outputfile))
          => /\ LenHistoryMatches(outputfile)
             /\ (pc = "loop") => outputfile.charlist_history = charlist_history

\* a summary of a history that grew
C26_Witness ==
    /\ variant = "followup"
    /\ last.op = "get_summary"
    /\ last.ret.charlist_len_history = <<2, 3, 3>>

\* C29: the follow-up call's messages are four turns in this order: system
\* (the system prompt), user (the initial prompt sent for this sample),
\* assistant (the first response's regularised records as JSON), user (the
\* follow-up template with [DESCRIPTION], [MISSING_WORDS] (sorted, joined by
\* "; ") and [CHARACTER_LIST] (the running list joined by "; ") filled in).
C29_FollowupMessages ==
    [][(variant \in {"followup", "extractor"} /\ last'.op = "step" /\ Len(calls') = 2) =>
          LET desc == Sample(nsteps + 1).desc
              charlist == IF variant = "followup"
                          THEN charlist_history[Len(charlist_history)] ELSE ext_chars
          IN  /\ calls'[1].api = "generate"
              /\ \A init \in {prompt2charjson(last'.resps[1])} :
                 \A omissions \in {get_omissions(desc, init.data)} :
                    calls'[2] =
                      ChatCall(<<Message("system", sys_prompt),
                                 Message("user", calls'[1].prompt),
                                 Message("assistant", json_dumps(init.data)),
                                 Message("user",
                                     Text(replace(replace(replace(f_prompt,
                                                 "[DESCRIPTION]", desc),
                                             "[MISSING_WORDS]", Join(sorted(omissions), "; ")),
                                          "[CHARACTER_LIST]", Join(charlist, "; "))))>>)
      ]_vars

\* C30: each accum_step builds its prompts from the most recent entry of
\* charlist_history at the time of the call: the list substituted for
\* [CHARACTER_LIST] in the initial prompt, and in the follow-up prompt of the
\* follow-up accumulator, is the entry the preceding step committed.
C30_PromptFromLatestEntry ==
    [][(variant \in {"plain", "tab", "followup", "langchain"} /\ last'.op = "step"
            /\ Len(calls') >= 1) =>
          LET desc == Sample(nsteps + 1).desc
              recent == Join(charlist_history[Len(charlist_history)], "; ")
          IN  /\ IF variant = "langchain"
                 THEN calls'[1].system =
                          Text(replace(lc_accum_prompt, "[CHARACTER_LIST]", recent))
                 ELSE calls'[1].prompt =
                          Text(replace(replace(accum_prompt, "[DESCRIPTION]", desc),
                                       "[CHARACTER_LIST]", recent))
              /\ (Len(calls') = 2) =>
                    \A init \in {prompt2charjson(last'.resps[1])} :
                    \A omissions \in {get_omissions(desc, init.data)} :
                       calls'[2].messages[4].content =
                           Text(replace(replace(replace(f_prompt, "[DESCRIPTION]", desc),
                                   "[MISSING_WORDS]", Join(sorted(omissions), "; ")),
                                "[CHARACTER_LIST]", recent))
      ]_vars

\* a follow-up step whose prompts carry the list an earlier step had grown
C30_Witness ==
    /\ variant = "followup"
    /\ last.op = "step"
    /\ last.store
    /\ Len(calls) = 2
    /\ Len(charlist_history) = 3
    /\ charlist_history[2] # charlist_history[1]
    /\ calls[1].prompt =
          Text(replace(replace(accum_prompt, "[DESCRIPTION]", Sample(nsteps).desc),
                       "[CHARACTER_LIST]", Join(charlist_history[2], "; ")))

\* the letters and digits of a text, in order
RECURSIVE Alphanumerics(_, _)
Alphanumerics(text, i) ==
    IF i > Len(text) THEN <<>>
    ELSE (IF text[i] \in TokenPunctuation \cup {" ", "\n", "-"} THEN <<>> ELSE <<text[i]>>)
             \o Alphanumerics(text, i + 1)

\* the word set get_word_set is written to compute: the lowercased tokens
\* without stop words and punctuation, nouns in the singular
Singular(w) == CASE w = "leaves" -> "leaf" [] w = "trees" -> "tree" [] OTHER -> w
WordSetOf(text) ==
    LET tokens == word_tokenize(SubRange(FU_spacing(text), 1, 1)) IN
    {Singular(w) : w \in ({lower(tokens[i]) : i \in 1..Len(tokens)} \ stop_words)
                             \ {".", ",", ":", ";", "\"", "'", "(", ")"}}

\* C27: get_omissions(desc, char_json) returns the set difference of the
\* word set of the description and the word set of the records rendered as
\* "name: value" lines: a set, within the description's words and disjoint
\* from the rendering's.
C27_OmissionsIsSetDifference ==
    (last.op = "get_omissions") =>
        /\ DOMAIN last.ret = {"set"}
        /\ last.ret.set = WordSetOf(last.resps[1])
                              \ WordSetOf(compiled_charstr_from(last.resps[2], 1))

\* C28: the punctuation-spacing step of get_word_set only inserts
\* separators: the letters and digits of its result are those of the text,
\* in the same order (so a rendering that holds every word of the source
\* leaves no omission).
C28_SpacingKeepsLettersAndDigits ==
    (last.op = "punctuation_spacing") =>
        Alphanumerics(last.ret, 1) = Alphanumerics(last.resps[2], 1)

---------------------------------------------------------------------------
\* the prompt an extractor sends for a description: the fixed ext_prompt with
\* the description and the fixed ext_chars filled in
ExtPromptOf(desc) ==
    Text(replace(replace(ext_prompt, "[DESCRIPTION]", desc),
                 "[CHARACTER_LIST]", Join(ext_chars, "; ")))

\* C31: in extraction mode the prompt and the result of a sample depend only
\* on the fixed prompts, ext_chars and the sample's text.  With workers that
\* take the samples in any order and a deterministic backend, the prompt
\* sent for a sample is ExtPromptOf of its text and its entry in the log is
\* the SampleResult of the backend's answer to that prompt, wherever in the
\* log it stands; a step of FollowupTraitExtractor or LCTraitExtractor
\* issues the calls, returns the result and stores the entry that a fresh
\* object (empty log) gives for the same sample and responses.
C31_ExtractionOrderIndependent ==
    /\ (variant = "te_workers") =>
          /\ \A k \in 1..PoolSize :
                (jobs[k].at = "generate") => jobs[k].prompt = ExtPromptOf(Sample(k).desc)
          /\ \A i \in 1..Len(sp_chars) :
                \E k \in 1..PoolSize :
                   /\ sp_chars[i].coreid = Sample(k).spid
                   /\ jobs[k] = JobReturned
                   /\ sp_chars[i] =
                         SampleResult(Sample(k).spid, Sample(k).desc,
                                      prompt2charjson(generate(backend,
                                                               ExtPromptOf(Sample(k).desc))))
    /\ (variant = "extractor" /\ last.op = "step" /\ last.store) =>
          \A fresh \in {FTE_ext_step(<<>>, Sample(nsteps).spid, Sample(nsteps).desc, TRUE,
                                      last.resps[1], last.resps[2])} :
             /\ calls = fresh.calls
             /\ last.ret = fresh.ret
             /\ (Len(fresh.log) = 1) =>
                    (sp_chars # <<>> /\ sp_chars[Len(sp_chars)] = fresh.log[1])
    /\ (variant = "wcharlist_lc" /\ last.op = "step" /\ last.store) =>
          \E k \in 1..MaxSteps :
          \A fresh \in {LC_ext_step(<<>>, Sample(k).spid, Sample(k).desc, TRUE,
                                     last.resps[1])} :
             /\ calls = fresh.calls
             /\ last.ret = fresh.ret
             /\ sp_chars # <<>> /\ sp_chars[Len(sp_chars)] = fresh.log[1]

\* three samples were processed by the workers and the log holds them in an
\* order that is not the order of the samples, with different outcomes
C31_Witness ==
    /\ variant = "te_workers"
    /\ Len(sp_chars) = 3
    /\ sp_chars[1].coreid = Sample(3).spid
    /\ sp_chars[3].coreid = Sample(1).spid
    /\ sp_chars[1].status = "success"
    /\ sp_chars[2].status # "success"

---------------------------------------------------------------------------
\* the positions of the log that hold a result for the k-th sample
EntriesOf(k) == {i \in 1..Len(sp_chars) : sp_chars[i].coreid = Sample(k).spid}

\* a complete result of the k-th sample: every field present, the sample's
\* text, and the data under char_json or failed_str according to the status
CompleteResult(entry, k) ==
    /\ DOMAIN entry = {"coreid", "status", "original_description", "char_json", "failed_str"}
    /\ entry.original_description = Sample(k).desc
    /\ entry.status \in Statuses
    /\ IF entry.status = "success"
       THEN IsList(entry.char_json) /\ entry.failed_str = PyNone
       ELSE entry.char_json = PyNone /\ IsStr(entry.failed_str)

\* C32: when several workers call ext_step concurrently on one extractor
\* (TraitExtractor or FollowupTraitExtractor), no append to the shared log is
\* lost or interleaved: at any moment the log holds exactly one complete
\* SampleResult for every sample whose call has returned and nothing else,
\* so once all workers have finished it holds one per processed sample.
C32_NoAppendLost ==
    (variant \in {"te_workers", "fte_workers"}) =>
        /\ \A k \in 1..PoolSize :
              IF jobs[k] = JobReturned
              THEN /\ Cardinality(EntriesOf(k)) = 1
                   /\ \A i \in EntriesOf(k) : CompleteResult(sp_chars[i], k)
              ELSE EntriesOf(k) = {}
        /\ Len(sp_chars) = Cardinality({k \in 1..PoolSize : jobs[k] = JobReturned})

\* two calls of a shared FollowupTraitExtractor have returned and stored
\* their results, the later sample first, while the call for the first
\* sample is still waiting for the answer to its follow-up question
C32_Witness ==
    /\ variant = "fte_workers"
    /\ jobs[1].at = "chat"
    /\ jobs[2] = JobReturned /\ jobs[3] = JobReturned
    /\ Len(sp_chars) = 2
    /\ sp_chars[1].coreid = Sample(3).spid
    /\ sp_chars[1].status = "success"

---------------------------------------------------------------------------
\* the response is syntactically valid JSON that decodes to an array whose
\* elements all are objects with exactly the keys characteristic and value
ValidRecordResponse(resp) ==
    \A json \in {json_loads(resp)} : ~IsRaise(json) /\ ~NotRecordList(json)

\* C33: every response that is a syntactically valid JSON array whose elements
\* all have exactly the keys characteristic and value is classified success,
\* never invalid_json or bad_structure, whatever characters its strings
\* contain (apostrophes included), by parse_llm_response and by the legacy
\* desc2charjson.
C33_ValidRecordsAreSuccess ==
    (variant = "functions" /\ last.op \in {"parse_llm_response", "desc2charjson"}
        /\ ValidRecordResponse(last.resps[1])) =>
        (~IsRaise(last.ret) /\ last.ret.status = "success")

---------------------------------------------------------------------------
\* C34: single-sample seeding (extract_init_chars of TraitAccumulator, of
\* FollowupTraitAccumulator, which inherits it, and of LCTraitAccumulator)
\* issues exactly one generation call, and its prompt is the init_prompt
\* given at construction with [DESCRIPTION] replaced by the sample text: no
\* prior schema and no placeholder left in it.
C34_SeedPromptIsInitPrompt ==
    /\ (variant \in {"plain", "followup"} /\ last.op = "seed") =>
          calls = <<GenerateCall(Text(replace(init_prompt, "[DESCRIPTION]", Sample(1).desc)),
                                 sys_prompt)>>
    /\ (variant = "langchain" /\ last.op = "seed") =>
          calls = <<InvokeCall(Text(lc_init_prompt), Sample(1).desc)>>

---------------------------------------------------------------------------
\* the names of a charlist_history entry, as a set
NameSet(charlist) == {charlist[i] : i \in 1..Len(charlist)}

\* C35 as stated: the schema is a ratchet on names.  A name that appears in
\* a charlist_history entry appears in every later entry: the names of entry
\* k are a subset of the names of entry k+1.
C35_NamesNeverLost ==
    (variant \in {"plain", "followup", "langchain", "tab", "tabscript"}) =>
        \A k \in 1..(Len(charlist_history) - 1) :
           NameSet(charlist_history[k]) \subseteq NameSet(charlist_history[k + 1])

\* C35 amended: the schema is a ratchet on length.  Every charlist_history
\* entry is either equal to the entry before it or strictly longer than it
\* (then it is the name list of that step's result, whatever names it holds).
C35_RatchetOnLength ==
    (variant \in {"plain", "followup", "langchain", "tab", "tabscript"}) =>
        \A k \in 1..(Len(charlist_history) - 1) :
           \/ charlist_history[k + 1] = charlist_history[k]
           \/ Len(charlist_history[k + 1]) > Len(charlist_history[k])

\* a step of the plain accumulator committed a longer list that lacks a name
\* of the entry before it
C35_Witness ==
    /\ variant = "plain"
    /\ Len(charlist_history) >= 2
    /\ Len(charlist_history[2]) > Len(charlist_history[1])
    /\ ~(NameSet(charlist_history[1]) \subseteq NameSet(charlist_history[2]))

---------------------------------------------------------------------------
\* C36: in the follow-up conversation the user turn that replays the initial
\* request carries the text of the prompt that was sent in the initial
\* single-shot call for the sample (follow-up accumulator, follow-up
\* extractor, and the legacy desc2charjson_followup of the wcharlist_followup
\* script).
C36_ReplayedTurnIsInitialPrompt ==
    (variant \in {"followup", "extractor", "wcharlist_followup"} /\ last.op = "step"
        /\ Len(calls) = 2) =>
        /\ calls[1].api = "generate"
        /\ calls[2].api = "chat"
        /\ calls[2].messages[2] = Message("user", calls[1].prompt)

---------------------------------------------------------------------------
\* what the method called by the most recent seed or step gives when it is
\* called with store_results in the state hist, log, for the sample
\* Sample(k) and the responses resps
MethodOutcome(v, op, hist, log, k, store_results, resps) ==
    CASE v \in {"plain", "followup"} /\ op = "seed" ->
            TA_extract_init_chars(hist, log, Sample(1).desc, store_results, resps[1])
      [] v = "tab" /\ op = "seed" ->
            Tab_extract_init_chars(hist, log, TabSpids, [i \in 1..NumTab |-> Sample(i).desc],
                                   store_results, resps[1])
      [] v = "langchain" /\ op = "seed" ->
            LC_extract_init_chars(hist, log, Sample(1).desc, store_results, resps[1])
      [] v \in {"plain", "tab"} /\ op = "step" ->
            TA_accum_step(hist, log, Sample(k).spid, Sample(k).desc, store_results, resps[1])
      [] v = "followup" /\ op = "step" ->
            FTA_accum_step(hist, log, Sample(k).spid, Sample(k).desc, store_results,
                           resps[1], resps[2])
      [] v = "langchain" /\ op = "step" ->
            LC_accum_step(hist, log, Sample(k).spid, Sample(k).desc, store_results, resps[1])
      [] v = "extractor" /\ op = "step" ->
            [FTE_ext_step(log, Sample(k).spid, Sample(k).desc, store_results,
                          resps[1], resps[2]) EXCEPT !.hist = hist]
      [] v = "wcharlist_lc" /\ op = "step" ->
            [LC_ext_step(log, Sample(k).spid, Sample(k).desc, store_results, resps[1])
                EXCEPT !.hist = hist]

\* the variants whose methods take store_results
StoreVariants == {"plain", "followup", "langchain", "tab", "extractor", "wcharlist_lc"}

\* C37: with store_results=False, extract_init_chars, accum_step (plain and
\* follow-up) and ext_step leave charlist_history and the result log as they
\* were, and issue the calls and return the result that the same call with
\* store_results=True gives; a seed with store_results=False on a new
\* accumulator leaves it uninitialised; and a storing follow-up step records
\* one entry, that of its final result: the base step it calls internally
\* records none.
C37_NoStoreLeavesState ==
    [][(variant \in StoreVariants /\ last'.op \in {"seed", "step"}) =>
          /\ (~last'.store) =>
                /\ charlist_history' = charlist_history
                /\ sp_chars' = sp_chars
                /\ \E k \in 1..MaxSteps :
                   \A stored \in {MethodOutcome(variant, last'.op, charlist_history, sp_chars,
                                                 k, TRUE, last'.resps)} :
                      /\ last'.ret = stored.ret
                      /\ calls' = stored.calls
          /\ (last'.store /\ variant = "followup" /\ last'.op = "step"
                  /\ ~IsRaise(last'.ret)) =>
                /\ Len(sp_chars') = Len(sp_chars) + 1
                /\ Len(charlist_history') = Len(charlist_history) + 1
      ]_vars

\* a follow-up step with store_results=False on a seeded accumulator with an
\* empty log: both calls were issued, the follow-up's result was returned,
\* and the history and the log are as the seed left them
C37_Witness ==
    /\ variant = "followup"
    /\ last.op = "step" /\ ~last.store
    /\ Len(calls) = 2
    /\ ~IsRaise(last.ret) /\ last.ret.status = "success"
    /\ Len(charlist_history) = 1
    /\ sp_chars = <<>>

---------------------------------------------------------------------------
\* C38: a summary returned by get_summary is a snapshot.  A seed or a step
\* performed on the object after the call changes no part of the summary in
\* the caller's hands: it reads as it was returned (data, charlist_history,
\* charlist_len_history), and its charlist_len_history still is the lengths
\* of its charlist_history.
C38_SummaryIsSnapshot ==
    [][(last.op = "get_summary" /\ last'.op \in {"seed", "step"}) =>
          \A now \in {summary_after(last.ret, last'.op, last'.store, charlist_history')} :
             /\ now = last.ret
             /\ ("charlist_history" \in DOMAIN now) =>
                   now.charlist_len_history = charlist_len_history(now.charlist_history)
      ]_vars

\* C39: in the word-coverage computation of desc2matrix_qc.py, for every
\* row written, the recovered and the omitted words add up to the words of
\* the original, the recovered and the created words add up to the words of
\* the result, and the lists of common, original-only and result-only words
\* are pairwise disjoint.
C39_CoverageCountsAddUp ==
    (last.op = "qc_row" /\ ~IsRaise(last.ret)) =>
        /\ last.ret.nwords_recovered + last.ret.nwords_omitted = last.ret.nwords_original
        /\ last.ret.nwords_recovered + last.ret.nwords_created = last.ret.nwords_result
        /\ last.ret.common_words \cap last.ret.original_only = {}
        /\ last.ret.common_words \cap last.ret.result_only = {}
        /\ last.ret.original_only \cap last.ret.result_only = {}

\* a row whose three lists all hold words, a plural of the description
\* being recovered through its singular
C39_Witness ==
    /\ last.op = "qc_row"
    /\ ~IsRaise(last.ret)
    /\ last.ret.original_only # {}
    /\ last.ret.result_only # {}
    /\ "leaf" \in last.ret.common_words
    /\ last.ret.nwords_original = 4

\* C40: in the loop of desc2matrix_accum_tab.py, at the start of iteration
\* rowid the history holds rowid + 1 entries (rowid results are stored), so
\* charlist_history[rowid], the list the prompt is built from, is the entry
\* committed last and the index is never out of range.
C40_HistoryOneAheadOfRow ==
    /\ (variant = "tabscript" /\ pc = "loop") => Len(charlist_history) = Len(sp_chars) + 1
    /\ (variant = "tabscript" /\ last.op = "step") =>
          ~(IsRaise(last.ret) /\ last.ret.raise = "IndexError")
    /\ (variant = "tabscript" /\ last.op = "step" /\ pc = "loop") =>
          calls[1].prompt =
             Text(replace(replace(accum_prompt, "[DESCRIPTION]", Sample(Len(sp_chars)).desc),
                          "[CHARACTER_LIST]",
                          Join(charlist_history[Len(charlist_history) - 1], "; ")))

\* the loop after an iteration that grew the list and one that failed to
\* parse: two results are stored and the history holds three entries
C40_Witness ==
    /\ variant = "tabscript"
    /\ pc = "loop"
    /\ last.op = "step"
    /\ Len(sp_chars) = 2
    /\ Len(charlist_history) = 3
    /\ charlist_history[2] # charlist_history[1]
    /\ sp_chars[2].status # "success"

====
